---- MODULE Spec2Model ----
(***************************************************************************)
(* Model of the ArDrive token state viewer: the DataSource contract and    *)
(* its two implementations (LocalFileSource, ApiSource), and the viewer's  *)
(* load / filter / sort pipeline (TokenStateViewer).                       *)
(*                                                                         *)
(* Conventions.  A JavaScript value that may be null/undefined is an       *)
(* option: None (<<>>) or Some(v) (<<v>>).  A string the code transforms   *)
(* (addresses, search terms) is a sequence of UTF-16 code units; a string  *)
(* it only passes around (names, ids) is a TLA+ string.  An async method   *)
(* is split at its awaits: the part up to the first awaited I/O is one     *)
(* action, the continuation after the I/O settles is another.              *)
(***************************************************************************)
EXTENDS Integers, Sequences, FiniteSets, Bags, TLC

VARIABLES
    src,        \* the data source instance under test (SpecSrc)
    now,        \* Date.now()
    calls,      \* bag of the fetchState calls of src awaiting their I/O
    ev,         \* what the last step did, as its caller observes it
    hist,       \* history of src: last/first successful read, clearCache since
    viewer,     \* the fields of the TokenStateViewer object
    dom,        \* the page: inputs, load button, indicators, statistics
    loads,      \* bag of the viewer's fetchState calls awaiting their I/O
    pending     \* bag of the viewer's other handlers awaiting their I/O

srcVars == <<src, now, calls, ev, hist>>
viewVars == <<viewer, dom, loads, pending>>
vars == <<src, now, calls, ev, hist, viewer, dom, loads, pending>>

----------------------------------------------------------------------------
(* Bounds *)

MaxTime == 3          \* the clock runs from 1 to MaxTime
MaxInFlight == 2      \* fetchState calls of one source awaiting I/O
MaxRows == 2          \* entries of state.balances in a loaded document
MaxTermLen == 2       \* code units of a typed search term
MaxPending == 2       \* wallet, source-code and transfer calls awaiting I/O

----------------------------------------------------------------------------
(* Options and strings *)

None == <<>>
Some(v) == <<v>>
IsSome(o) == o # <<>>
Val(o) == o[1]

\* Strings over the code units "A" = 65, "B" = 66, "a" = 97, "b" = 98 and
\* " " = 32.
Str_ab == <<97, 98>>
Str_Ab == <<65, 98>>
Str_B == <<66>>

\* String.prototype.toLowerCase on these code units.
Lower(str) ==
    [i \in 1..Len(str) |->
        IF 65 <= str[i] /\ str[i] <= 90 THEN str[i] + 32 ELSE str[i]]

\* String.prototype.trim: white space off both ends.
RECURSIVE TrimStart(_)
TrimStart(str) ==
    IF str # <<>> /\ Head(str) = 32 THEN TrimStart(Tail(str)) ELSE str

RECURSIVE TrimEnd(_)
TrimEnd(str) ==
    IF str # <<>> /\ str[Len(str)] = 32
    THEN TrimEnd(SubSeq(str, 1, Len(str) - 1)) ELSE str

Trim(str) == TrimEnd(TrimStart(str))

\* String.prototype.includes.
Includes(str, part) ==
    \E i \in 0..(Len(str) - Len(part)) :
        SubSeq(str, i + 1, i + Len(part)) = part

\* a < b on strings: by code units, a proper prefix first.
RECURSIVE StrLess(_, _)
StrLess(a, b) ==
    IF b = <<>> THEN FALSE
    ELSE IF a = <<>> THEN TRUE
    ELSE IF Head(a) # Head(b) THEN Head(a) < Head(b)
    ELSE StrLess(Tail(a), Tail(b))

----------------------------------------------------------------------------
(* JSON documents *)

\* A vault entry {balance, start, end}.
Entry(b) == [balance |-> b, start |-> 10, end |-> 20]

\* A document {contractTxId, state: {balances, vault, name, ticker}}.  An
\* object is the sequence of its entries in property order, which is the
\* order Object.entries walks.
MkDoc(id, balances, vault, name, ticker) ==
    [contractTxId |-> id,
     state |-> Some([balances |-> Some(balances), vault |-> vault,
                     name |-> name, ticker |-> ticker])]

PayA == MkDoc("contractA",
              << <<Str_ab, 2>>, <<Str_B, 1>> >>,
              Some(<< <<Str_ab, <<Entry(1), Entry(2)>> >> >>),
              "TokenA", "TKA")

PayB == MkDoc("contractB",
              << <<Str_B, 3>> >>,
              None,
              "TokenB", "TKB")

\* Malformed documents: no state, and a state without balances.
PayNoState == [contractTxId |-> "contractC", state |-> None]

PayNoBalances ==
    [contractTxId |-> "contractD",
     state |-> Some([balances |-> None, vault |-> None,
                     name |-> "TokenD", ticker |-> "TKD"])]

SrcPayloads == {PayA, PayB, PayNoState, PayNoBalances}

\* What the awaited fetch() / response.json() can settle to: the fetch
\* rejects, the response is not ok, the body is not JSON, or a document.
Responses(payloads) ==
    {[kind |-> k, data |-> None] : k \in {"reject", "notok", "badjson"}}
        \cup {[kind |-> "json", data |-> Some(p)] : p \in payloads}

----------------------------------------------------------------------------
(* DataSource, LocalFileSource, ApiSource *)

\* A source object.  A LocalFileSource has no cacheExpiry / cacheDuration
\* fields; they stay None / 0 and no LocalFileSource code reads them.
NewDataSource ==
    [kind |-> "DataSource", target |-> None, cachedState |-> None,
     cacheExpiry |-> None, cacheDuration |-> 0]

\* new LocalFileSource(filePath)
NewLocalFileSource(filePath) ==
    [kind |-> "LocalFileSource", target |-> Some(filePath),
     cachedState |-> None, cacheExpiry |-> None, cacheDuration |-> 0]

DefaultCacheDuration == 60000

\* new ApiSource(endpoint, options): options.cacheDuration || 60000, so an
\* absent (None) or zero option gives the default.
NewApiSource(apiEndpoint, optDuration) ==
    [kind |-> "ApiSource", target |-> Some(apiEndpoint),
     cachedState |-> None, cacheExpiry |-> None,
     cacheDuration |-> IF IsSome(optDuration) /\ Val(optDuration) # 0
                       THEN Val(optDuration) ELSE DefaultCacheDuration]

\* Mutant: the validation looks at data.state only.
M_ValidData_stateOnly(data) == IsSome(data.state)

\* !data.state || !data.state.balances is false.
ValidData(data) ==
    /\ IsSome(data.state)
    /\ IsSome(Val(data.state).balances)

\* A settled read that yields a document passing the validation.
GoodResponse(resp) ==
    /\ resp.kind = "json"
    /\ ValidData(Val(resp.data))

\* fetchState up to its first await: the cached state if it is served,
\* None if the method goes on to fetch().
LocalFetchCached(s) ==
    IF IsSome(s.cachedState) THEN s.cachedState ELSE None

\* Mutant: the cache still counts as fresh at the expiry instant.
M_ApiFetchCached_inclusive(s, t) ==
    IF /\ IsSome(s.cachedState)
       /\ IsSome(s.cacheExpiry) /\ Val(s.cacheExpiry) # 0
       /\ t <= Val(s.cacheExpiry)
    THEN s.cachedState ELSE None

ApiFetchCached(s, t) ==
    IF /\ IsSome(s.cachedState)
       /\ IsSome(s.cacheExpiry) /\ Val(s.cacheExpiry) # 0
       /\ t < Val(s.cacheExpiry)
    THEN s.cachedState ELSE None

\* fetchState after the read settled to resp: the source afterwards and the
\* outcome, a returned state (ok) or a thrown error.
LocalFetchSettled(s, resp) ==
    IF GoodResponse(resp)
    THEN [src |-> [s EXCEPT !.cachedState = resp.data],
          ok |-> TRUE, value |-> resp.data]
    ELSE [src |-> s, ok |-> FALSE, value |-> None]

\* Mutant: the catch block rethrows without looking for a stale cache.
M_ApiFetchSettled_noStale(s, resp, t) ==
    IF GoodResponse(resp)
    THEN [src |-> [s EXCEPT !.cachedState = resp.data,
                            !.cacheExpiry = Some(t + s.cacheDuration)],
          ok |-> TRUE, value |-> resp.data]
    ELSE [src |-> s, ok |-> FALSE, value |-> None]

\* Mutant: serving the stale cache renews its expiry.
M_ApiFetchSettled_renewsStale(s, resp, t) ==
    IF GoodResponse(resp)
    THEN [src |-> [s EXCEPT !.cachedState = resp.data,
                            !.cacheExpiry = Some(t + s.cacheDuration)],
          ok |-> TRUE, value |-> resp.data]
    ELSE IF IsSome(s.cachedState)
         THEN [src |-> [s EXCEPT !.cacheExpiry = Some(t + s.cacheDuration)],
               ok |-> TRUE, value |-> s.cachedState]
         ELSE [src |-> s, ok |-> FALSE, value |-> None]

ApiFetchSettled(s, resp, t) ==
    IF GoodResponse(resp)
    THEN [src |-> [s EXCEPT !.cachedState = resp.data,
                            !.cacheExpiry = Some(t + s.cacheDuration)],
          ok |-> TRUE, value |-> resp.data]
    ELSE IF IsSome(s.cachedState)
         THEN [src |-> s, ok |-> TRUE, value |-> s.cachedState]
         ELSE [src |-> s, ok |-> FALSE, value |-> None]

ClearCacheOf(s) ==
    IF s.kind = "ApiSource"
    THEN [s EXCEPT !.cachedState = None, !.cacheExpiry = None]
    ELSE [s EXCEPT !.cachedState = None]

\* The accessors of DataSource: await fetchState(), then one field of it.
Accessors ==
    {"fetchState", "getContractId", "getBalances", "getVaults",
     "getTokenName", "getTokenTicker"}

\* Mutant: getTokenName reads the ticker.
M_Project_nameIsTicker(acc, st) ==
    CASE acc = "fetchState"     -> st
      [] acc = "getContractId"  -> st.contractTxId
      [] acc = "getBalances"    -> Val(Val(st.state).balances)
      [] acc = "getVaults"      -> Val(st.state).vault
      [] acc = "getTokenName"   -> Val(st.state).ticker
      [] acc = "getTokenTicker" -> Val(st.state).ticker

Project(acc, st) ==
    CASE acc = "fetchState"     -> st
      [] acc = "getContractId"  -> st.contractTxId
      [] acc = "getBalances"    -> Val(Val(st.state).balances)
      [] acc = "getVaults"      -> Val(st.state).vault
      [] acc = "getTokenName"   -> Val(st.state).name
      [] acc = "getTokenTicker" -> Val(st.state).ticker

----------------------------------------------------------------------------
(* TokenStateViewer: rows, filter, sort *)

\* entries.reduce((sum, entry) => sum + entry.balance, 0), and the same
\* reduce over rows with another field.
RECURSIVE SumField(_, _)
SumField(seq, field) ==
    IF seq = <<>> THEN 0
    ELSE seq[1][field] + SumField(Tail(seq), field)

\* loadData: Object.entries(balances).map(([address, balance]) => ...)
BalanceRows(doc) ==
    LET balances == Val(Val(doc.state).balances) IN
    [i \in 1..Len(balances) |->
        [address |-> balances[i][1], balance |-> balances[i][2]]]

\* Mutant: the total adds up entry.start instead of entry.balance.
M_VaultRows_sumsStart(doc) ==
    LET vault == Val(doc.state).vault
        vaults == IF IsSome(vault) THEN Val(vault) ELSE <<>> IN
    [i \in 1..Len(vaults) |->
        [address |-> vaults[i][1], entries |-> vaults[i][2],
         total |-> SumField(vaults[i][2], "start")]]

\* loadData: Object.entries(state.vault || {}).map(([address, entries]) => ...)
VaultRows(doc) ==
    LET vault == Val(doc.state).vault
        vaults == IF IsSome(vault) THEN Val(vault) ELSE <<>> IN
    [i \in 1..Len(vaults) |->
        [address |-> vaults[i][1], entries |-> vaults[i][2],
         total |-> SumField(vaults[i][2], "balance")]]

\* Mutant: the search term is lower-cased but not trimmed.
M_FilterRows_noTrim(rows, searchTerm) ==
    LET term == Lower(searchTerm) IN
    IF term = <<>> THEN rows
    ELSE SelectSeq(rows, LAMBDA item : Includes(Lower(item.address), term))

\* filterBalances / filterVaults: the new filtered collection.
FilterRows(rows, searchTerm) ==
    LET term == Trim(Lower(searchTerm)) IN
    IF term = <<>> THEN rows
    ELSE SelectSeq(rows, LAMBDA item : Includes(Lower(item.address), term))

\* Mutant: strings are compared without lower-casing them.
M_Compare_caseSensitive(a, b, column, direction, dataType) ==
    LET aVal == a[column]
        bVal == b[column]
        less == IF dataType = "number" THEN aVal < bVal ELSE StrLess(aVal, bVal)
        greater == IF dataType = "number" THEN aVal > bVal
                   ELSE StrLess(bVal, aVal) IN
    IF less THEN (IF direction = "asc" THEN -1 ELSE 1)
    ELSE IF greater THEN (IF direction = "asc" THEN 1 ELSE -1)
    ELSE 0

\* The comparator of sortByColumn: -1, 0 or 1.
Compare(a, b, column, direction, dataType) ==
    LET aVal == IF dataType = "number" THEN a[column] ELSE Lower(a[column])
        bVal == IF dataType = "number" THEN b[column] ELSE Lower(b[column])
        less == IF dataType = "number" THEN aVal < bVal ELSE StrLess(aVal, bVal)
        greater == IF dataType = "number" THEN aVal > bVal
                   ELSE StrLess(bVal, aVal) IN
    IF less THEN (IF direction = "asc" THEN -1 ELSE 1)
    ELSE IF greater THEN (IF direction = "asc" THEN 1 ELSE -1)
    ELSE 0

\* Mutant: an unstable sort, x goes in front of the elements it ties with.
RECURSIVE M_InsertStable_unstable(_, _, _, _, _)
M_InsertStable_unstable(x, sorted, column, direction, dataType) ==
    IF sorted = <<>> THEN <<x>>
    ELSE IF Compare(sorted[Len(sorted)], x, column, direction, dataType) < 0
    THEN Append(sorted, x)
    ELSE Append(M_InsertStable_unstable(x, SubSeq(sorted, 1, Len(sorted) - 1),
                                        column, direction, dataType),
                sorted[Len(sorted)])

\* Array.prototype.sort is stable: x goes behind every element that does
\* not compare greater than it.
RECURSIVE InsertStable(_, _, _, _, _)
InsertStable(x, sorted, column, direction, dataType) ==
    IF sorted = <<>> THEN <<x>>
    ELSE IF Compare(sorted[Len(sorted)], x, column, direction, dataType) <= 0
    THEN Append(sorted, x)
    ELSE Append(InsertStable(x, SubSeq(sorted, 1, Len(sorted) - 1),
                             column, direction, dataType),
                sorted[Len(sorted)])

RECURSIVE SortRows(_, _, _, _)
SortRows(data, column, direction, dataType) ==
    IF data = <<>> THEN <<>>
    ELSE InsertStable(data[Len(data)],
                      SortRows(SubSeq(data, 1, Len(data) - 1),
                               column, direction, dataType),
                      column, direction, dataType)

\* Mutant: a click on a descending column goes back to ascending.
M_NextSortState_toggle(sortState, column) ==
    IF sortState.column # Some(column)
    THEN [column |-> Some(column), direction |-> Some("asc")]
    ELSE IF sortState.direction = Some("asc")
    THEN [sortState EXCEPT !.direction = Some("desc")]
    ELSE [sortState EXCEPT !.direction = Some("asc")]

\* handleColumnSort: the next sort state after a click on column.
NextSortState(sortState, column) ==
    IF sortState.column # Some(column)
    THEN [column |-> Some(column), direction |-> Some("asc")]
    ELSE IF sortState.direction = Some("asc")
    THEN [sortState EXCEPT !.direction = Some("desc")]
    ELSE IF sortState.direction = Some("desc")
    THEN [column |-> None, direction |-> None]
    ELSE [sortState EXCEPT !.direction = Some("asc")]

\* handleColumnSort, reset branch: [...balancesData].filter(item =>
\* filteredBalances.find(f => f.address === item.address)).
ResetOrder(full, filtered) ==
    SelectSeq(full, LAMBDA item :
        \E i \in 1..Len(filtered) : filtered[i].address = item.address)

\* The viewer as its constructor leaves it.
NewViewer ==
    [dataSource |-> None, state |-> None,
     balancesData |-> <<>>, vaultsData |-> <<>>,
     filteredBalances |-> <<>>, filteredVaults |-> <<>>,
     sourceCode |-> None, sourceTxId |-> None,
     walletAddress |-> None, walletConnected |-> FALSE,
     balanceSortState |-> [column |-> None, direction |-> None],
     vaultSortState |-> [column |-> None, direction |-> None]]

\* The text of the wallet balance elements while there is nothing to show.
Dash == <<45>>

\* The page before init() has run: no listeners yet, the load button
\* enabled, the loading indicator shown, no error, empty statistics; no
\* wallet extension injected yet (window.arweaveWallet), the disconnect
\* dialog closed, the transfer button enabled, the source pane empty.
NewDom ==
    [started |-> FALSE, listening |-> FALSE,
     loadBtnDisabled |-> FALSE, loading |-> TRUE, error |-> None,
     totalAddresses |-> 0, totalSupply |-> 0, filteredCount |-> 0,
     arweaveWallet |-> FALSE, disconnectModal |-> FALSE,
     walletBalance |-> Dash, walletVaulted |-> Dash,
     submitDisabled |-> FALSE,
     sourcePane |-> [kind |-> "empty", txId |-> None, code |-> None]]

\* The viewer part of the state while only a data source is exercised.
ViewIdle ==
    /\ viewer = NewViewer
    /\ dom = NewDom
    /\ loads = EmptyBag
    /\ pending = EmptyBag

----------------------------------------------------------------------------
(* One source object and its callers (SpecSrc) *)

\* cacheDuration values: the constructor option (None: not given) and the
\* argument of setCacheDuration.
Durations == {0, 2}

NoEvent ==
    [op |-> "none", acc |-> "fetchState", request |-> FALSE,
     settled |-> FALSE, ok |-> FALSE, value |-> None, resp |-> None,
     afterClear |-> FALSE]

\* A call that settles without I/O: served from the cache, or thrown by the
\* base class.
Immediate(acc, ok, value, afterClear) ==
    [op |-> "call", acc |-> acc, request |-> FALSE, settled |-> TRUE,
     ok |-> ok, value |-> value, resp |-> None, afterClear |-> afterClear]

\* A call that issues its read and awaits it.
Requested(acc, afterClear) ==
    [op |-> "call", acc |-> acc, request |-> TRUE, settled |-> FALSE,
     ok |-> FALSE, value |-> None, resp |-> None, afterClear |-> afterClear]

\* A call whose awaited read settled to resp, with outcome out.
Returned(c, resp, out) ==
    [op |-> "return", acc |-> c.acc, request |-> FALSE, settled |-> TRUE,
     ok |-> out.ok,
     value |-> IF out.ok THEN Some(Project(c.acc, Val(out.value))) ELSE None,
     resp |-> Some([failed |-> resp.kind # "json", data |-> resp.data]),
     afterClear |-> c.afterClear]

NewCall(acc) == [acc |-> acc, afterClear |-> hist.fresh]

\* A document that has state and state.balances.
HasBalances(doc) ==
    /\ doc.state # <<>>
    /\ doc.state[1].balances # <<>>

\* The history after a read settled at time t on source s: a read counts as
\* successful when it yields a document that has state.balances.
Recorded(s, resp, t) ==
    IF resp.kind = "json" /\ HasBalances(resp.data[1])
    THEN [hist EXCEPT
            !.lastOk = Some([at |-> t, dur |-> s.cacheDuration,
                             data |-> Val(resp.data)]),
            !.firstOk = IF IsSome(hist.firstOk) THEN hist.firstOk
                        ELSE resp.data,
            !.cleared = FALSE]
    ELSE hist

SrcInit ==
    /\ src \in {NewDataSource, NewLocalFileSource("./state.json")}
                  \cup {NewApiSource("https://api.example.com/token-state", o) :
                            o \in {None} \cup {Some(d) : d \in Durations}}
    /\ now = 1
    /\ calls = EmptyBag
    /\ ev = NoEvent
    /\ hist = [lastOk |-> None, firstOk |-> None, cleared |-> FALSE,
               fresh |-> FALSE]
    /\ ViewIdle

\* DataSource.fetchState and the accessors on the base class: it throws.
DataSource_fetchState(acc) ==
    /\ src.kind = "DataSource"
    /\ ev' = Immediate(acc, FALSE, None, FALSE)
    /\ UNCHANGED <<src, now, calls, hist>>

\* LocalFileSource.fetchState (or an accessor) up to "await fetch".
LocalFileSource_fetchState(acc) ==
    /\ src.kind = "LocalFileSource"
    /\ LET cached == LocalFetchCached(src) IN
       IF IsSome(cached)
       THEN /\ ev' = Immediate(acc, TRUE, Some(Project(acc, Val(cached))),
                               hist.fresh)
            /\ UNCHANGED calls
       ELSE /\ BagCardinality(calls) < MaxInFlight
            /\ calls' = calls (+) SetToBag({NewCall(acc)})
            /\ ev' = Requested(acc, hist.fresh)
    /\ hist' = [hist EXCEPT !.fresh = FALSE]
    /\ UNCHANGED <<src, now>>

\* LocalFileSource.fetchState after the read settled.
LocalFileSource_fetchState_settled(c, resp) ==
    /\ src.kind = "LocalFileSource"
    /\ BagIn(c, calls)
    /\ LET out == LocalFetchSettled(src, resp) IN
         /\ src' = out.src
         /\ ev' = Returned(c, resp, out)
    /\ calls' = calls (-) SetToBag({c})
    /\ hist' = Recorded(src, resp, now)
    /\ UNCHANGED now

\* ApiSource.fetchState (or an accessor) up to "await fetch".
ApiSource_fetchState(acc) ==
    /\ src.kind = "ApiSource"
    /\ LET cached == ApiFetchCached(src, now) IN
       IF IsSome(cached)
       THEN /\ ev' = Immediate(acc, TRUE, Some(Project(acc, Val(cached))),
                               hist.fresh)
            /\ UNCHANGED calls
       ELSE /\ BagCardinality(calls) < MaxInFlight
            /\ calls' = calls (+) SetToBag({NewCall(acc)})
            /\ ev' = Requested(acc, hist.fresh)
    /\ hist' = [hist EXCEPT !.fresh = FALSE]
    /\ UNCHANGED <<src, now>>

\* ApiSource.fetchState after the request settled.
ApiSource_fetchState_settled(c, resp) ==
    /\ src.kind = "ApiSource"
    /\ BagIn(c, calls)
    /\ LET out == ApiFetchSettled(src, resp, now) IN
         /\ src' = out.src
         /\ ev' = Returned(c, resp, out)
    /\ calls' = calls (-) SetToBag({c})
    /\ hist' = Recorded(src, resp, now)
    /\ UNCHANGED now

\* LocalFileSource.clearCache / ApiSource.clearCache.
clearCache ==
    /\ src.kind \in {"LocalFileSource", "ApiSource"}
    /\ src' = ClearCacheOf(src)
    /\ hist' = [hist EXCEPT !.firstOk = None, !.fresh = TRUE,
                            !.cleared = IsSome(hist.lastOk)]
    /\ ev' = NoEvent
    /\ UNCHANGED <<now, calls>>

\* ApiSource.setCacheDuration.
setCacheDuration(duration) ==
    /\ src.kind = "ApiSource"
    /\ src' = [src EXCEPT !.cacheDuration = duration]
    /\ ev' = NoEvent
    /\ UNCHANGED <<now, calls, hist>>

\* Time passes.
Tick ==
    /\ now < MaxTime
    /\ now' = now + 1
    /\ ev' = NoEvent
    /\ UNCHANGED <<src, calls, hist>>

SrcNext ==
    \/ DataSource_fetchState("fetchState")
    \/ LocalFileSource_fetchState("fetchState")
    \/ \E c \in BagToSet(calls), resp \in Responses(SrcPayloads) :
            LocalFileSource_fetchState_settled(c, resp)
    \/ ApiSource_fetchState("fetchState")
    \/ \E c \in BagToSet(calls), resp \in Responses(SrcPayloads) :
            ApiSource_fetchState_settled(c, resp)
    \/ clearCache
    \/ \E d \in Durations : setCacheDuration(d)
    \/ Tick

SpecSrc == SrcInit /\ [][SrcNext /\ UNCHANGED viewVars]_vars

\* The accessors, called by one caller that awaits each call before it makes
\* the next.
AccNext ==
    \/ \E acc \in Accessors : DataSource_fetchState(acc)
    \/ calls = EmptyBag /\ \E acc \in Accessors : LocalFileSource_fetchState(acc)
    \/ \E c \in BagToSet(calls), resp \in Responses(SrcPayloads) :
            LocalFileSource_fetchState_settled(c, resp)
    \/ calls = EmptyBag /\ \E acc \in Accessors : ApiSource_fetchState(acc)
    \/ \E c \in BagToSet(calls), resp \in Responses(SrcPayloads) :
            ApiSource_fetchState_settled(c, resp)
    \/ clearCache
    \/ Tick

SpecAcc == SrcInit /\ [][AccNext /\ UNCHANGED viewVars]_vars

----------------------------------------------------------------------------
(* Properties of the data sources *)

\* The last good read of src is still what its cache holds: there was one
\* and clearCache was not called since.
HaveLastOk == IsSome(hist.lastOk) /\ ~hist.cleared

LastOk == Val(hist.lastOk)

\* The read of the last step settled to a document that fails validation.
Malformed(e) ==
    /\ IsSome(e.resp)
    /\ ~Val(e.resp).failed
    /\ ~HasBalances(Val(Val(e.resp).data))

\* The read of the last step failed in transport: fetch rejected, response
\* not ok, body not JSON.
TransportFailed(e) == IsSome(e.resp) /\ Val(e.resp).failed

\* C1: on an ApiSource, a fetchState called after a successful fetch (not
\* cleared since) and strictly before that fetch's time + cacheDuration is
\* served the cached payload without a network request; called at or after
\* that time it issues a network request.
C1_TtlWindow ==
    (ev.op = "call" /\ ev.acc = "fetchState" /\ src.kind = "ApiSource"
        /\ HaveLastOk) =>
        IF now < LastOk.at + LastOk.dur
        THEN ~ev.request /\ ev.settled /\ ev.ok
                /\ ev.value = Some(LastOk.data)
        ELSE ev.request /\ ~ev.settled

C1_Witness ==
    /\ ev.op = "call" /\ ev.acc = "fetchState" /\ src.kind = "ApiSource"
    /\ HaveLastOk
    /\ LastOk.at < now /\ now < LastOk.at + LastOk.dur
    /\ ~ev.request /\ ev.value = Some(LastOk.data)

C1_WitnessExpired ==
    /\ ev.op = "call" /\ src.kind = "ApiSource" /\ HaveLastOk
    /\ now = LastOk.at + LastOk.dur /\ LastOk.dur > 0
    /\ ev.request

\* C2: on an ApiSource, a fetchState whose request fails returns the payload
\* of the most recent successful fetch if there was one and the cache was
\* not cleared since, and fails with an error otherwise.
C2_StaleOnError ==
    (ev.op = "return" /\ ev.acc = "fetchState" /\ src.kind = "ApiSource"
        /\ TransportFailed(ev)) =>
        IF HaveLastOk
        THEN ev.ok /\ ev.value = Some(LastOk.data)
        ELSE ~ev.ok /\ ev.value = None

C2_Witness ==
    /\ ev.op = "return" /\ ev.acc = "fetchState" /\ src.kind = "ApiSource"
    /\ TransportFailed(ev)
    /\ HaveLastOk
    /\ ev.ok /\ ev.value = Some(LastOk.data)

C2_WitnessNoCache ==
    /\ ev.op = "return" /\ src.kind = "ApiSource" /\ TransportFailed(ev)
    /\ IsSome(hist.lastOk) /\ hist.cleared
    /\ ~ev.ok

\* C3: on a LocalFileSource and on an ApiSource, a fetchState whose fetched
\* payload lacks state or state.balances fails with an error and returns no
\* state object, whatever calls came before.
C3_MalformedFails ==
    (ev.op = "return" /\ Malformed(ev)) => ~ev.ok /\ ev.value = None

\* C4: cachedState is null or a payload with state.balances; the cache is
\* exactly what the last validated read left (payload, and on an ApiSource
\* the expiry computed from that read), so a payload that fails validation
\* neither replaces cachedState nor sets or extends cacheExpiry.
C4_CacheOnlyValidated ==
    /\ IsSome(src.cachedState) => HasBalances(Val(src.cachedState))
    /\ src.cachedState = IF HaveLastOk THEN Some(LastOk.data) ELSE None
    /\ src.cacheExpiry = IF HaveLastOk /\ src.kind = "ApiSource"
                         THEN Some(LastOk.at + LastOk.dur) ELSE None

C4_Witness ==
    /\ ev.op = "return" /\ Malformed(ev)
    /\ src.kind = "ApiSource"
    /\ HaveLastOk /\ LastOk.at < now
    /\ src.cachedState = Some(LastOk.data)
    /\ src.cacheExpiry = Some(LastOk.at + LastOk.dur)

\* C5: on a LocalFileSource, after the first successful fetchState every
\* later fetchState returns that same payload and performs no file read,
\* until clearCache is called.
C5_SamePayloadUntilClear ==
    (ev.op = "call" /\ ev.acc = "fetchState" /\ src.kind = "LocalFileSource"
        /\ IsSome(hist.firstOk)) =>
        ~ev.request /\ ev.ok /\ ev.value = Some(Val(hist.firstOk))

\* C6: after clearCache the next fetchState performs a fresh read / network
\* request, and if that request fails the call fails with an error.
C6_FreshAfterClear ==
    /\ (ev.op = "call" /\ ev.afterClear) => ev.request
    /\ (ev.op = "return" /\ ev.afterClear /\ TransportFailed(ev)) => ~ev.ok

\* What each accessor is to return of a state object st.
FieldOf(acc, st) ==
    IF acc = "fetchState" THEN st
    ELSE IF acc = "getContractId" THEN st.contractTxId
    ELSE IF acc = "getBalances" THEN Val(st.state[1].balances)
    ELSE IF acc = "getVaults" THEN st.state[1].vault
    ELSE IF acc = "getTokenName" THEN st.state[1].name
    ELSE st.state[1].ticker

\* The source holds a cached state that fetchState serves at time now.
ValidCache ==
    /\ IsSome(src.cachedState)
    /\ src.kind = "ApiSource" =>
            IsSome(src.cacheExpiry) /\ now < Val(src.cacheExpiry)

\* C7: an accessor resolves to its field of the state fetchState returns
\* (the cached state, the one just read, or the stale one); its call issues
\* a read / network request exactly when the source has no valid cached
\* state; on the base DataSource every accessor fails.
C7_Accessors ==
    /\ (ev.settled /\ ev.ok) =>
            /\ IsSome(src.cachedState)
            /\ IsSome(ev.resp) /\ ~Val(ev.resp).failed
                    /\ HasBalances(Val(Val(ev.resp).data))
                  => src.cachedState = Val(ev.resp).data
            /\ ev.value = Some(FieldOf(ev.acc, Val(src.cachedState)))
    /\ (ev.op = "call" /\ src.kind # "DataSource") =>
            (ev.request <=> ~ValidCache)
    /\ (ev.op = "call" /\ src.kind = "DataSource") =>
            ev.settled /\ ~ev.ok /\ ~ev.request

C7_Witness ==
    /\ ev.op = "return" /\ ev.acc = "getTokenTicker" /\ ev.ok
    /\ ev.value = Some("TKA")

----------------------------------------------------------------------------
(* TokenStateViewer: handlers (Spec) *)

\* Objects keyed by address with up to MaxRows entries: "ab" and "Ab"
\* differ in case only, "B" sorts before both by code unit and after both
\* when lower-cased.
Keyed(addrs, values) ==
    {b \in UNION {[1..n -> addrs \X values] : n \in 0..MaxRows} :
        \A i, j \in 1..Len(b) : i # j => b[i][1] # b[j][1]}

\* state.balances with balances 1 and 2; state.vault with entry lists of
\* total 2 and 3.
BalanceObjects == Keyed({Str_ab, Str_Ab, Str_B}, {1, 2})
VaultObjects == Keyed({Str_Ab, Str_B}, {<<Entry(2)>>, <<Entry(1), Entry(2)>>})

\* What a read of the viewer can yield: documents without a vault and with
\* any balances, documents with one balance and any vault, and the two
\* malformed documents.
ViewDocs ==
    {MkDoc("contractA", b, None, "TokenA", "TKA") : b \in BalanceObjects}
        \cup {MkDoc("contractB", << <<Str_B, 2>> >>, Some(v), "TokenB", "TKB") :
                    v \in VaultObjects}
        \cup {PayNoState, PayNoBalances}

\* Values of the data source radio group and of the contract address input
\* when handleLoadData reads them: "" , " " and " c".
SourceChoices == {"snapshot", "api", "compute", "other"}
ContractInputs == {<<>>, <<32>>, <<32, 99>>}

\* The page of Spec: the example snapshot stays selected; a read fails, or
\* yields any document.
PipelineResponses ==
    {r \in Responses(ViewDocs) : r.kind \in {"reject", "json"}}

\* Typed search terms: strings of "a", "B" and " ".
SearchTerms ==
    UNION {[1..n -> {97, 66, 32}] : n \in 0..MaxTermLen}

\* th.dataset.column and th.dataset.type of the sortable headers.
Headers(tableType) ==
    IF tableType = "balance"
    THEN {[column |-> "address", type |-> "string"],
          [column |-> "balance", type |-> "number"]}
    ELSE {[column |-> "address", type |-> "string"],
          [column |-> "total", type |-> "number"]}

ApiEndpoint(contractAddress) ==
    [base |-> "https://api.arns.app/v1/contract/",
     contract |-> contractAddress, query |-> "?validity=true"]

\* renderBalances: the statistics it writes.  The rows it draws are the
\* filtered collection; renderVaults writes nothing any code reads back and
\* is left out.
RenderBalances(v, d) ==
    [d EXCEPT !.totalAddresses = Len(v.balancesData),
              !.totalSupply = SumField(v.balancesData, "balance"),
              !.filteredCount = Len(v.filteredBalances)]

\* formatNumber on an integer from 0 to 999: its decimal digits (the digit
\* grouping of toLocaleString starts at 1000).
RECURSIVE FormatNumber(_)
FormatNumber(value) ==
    IF value < 10 THEN <<48 + value>>
    ELSE Append(FormatNumber(value \div 10), 48 + (value % 10))

\* object[key] on an object given as the sequence of its entries: the value
\* as an option, None for undefined.
Lookup(object, key) ==
    IF \E i \in 1..Len(object) : object[i][1] = key
    THEN Some(object[CHOOSE i \in 1..Len(object) : object[i][1] = key][2])
    ELSE None

\* updateWalletBalances: a dash in both elements unless a wallet is
\* connected and a state loaded; else balances[address] || 0 and the sum of
\* the balances of (vault || {})[address] || [].
UpdateWalletBalances(v, d) ==
    IF ~v.walletConnected \/ v.walletAddress = None
          \/ v.walletAddress = Some(<<>>) \/ v.state = None
    THEN [d EXCEPT !.walletBalance = Dash, !.walletVaulted = Dash]
    ELSE LET st == Val(Val(v.state).state)
             found == Lookup(Val(st.balances), Val(v.walletAddress))
             balance == IF IsSome(found) /\ Val(found) # 0
                        THEN Val(found) ELSE 0
             vaults == IF IsSome(st.vault) THEN Val(st.vault) ELSE <<>>
             held == Lookup(vaults, Val(v.walletAddress))
             userVaults == IF IsSome(held) THEN Val(held) ELSE <<>> IN
         [d EXCEPT !.walletBalance = FormatNumber(balance),
                   !.walletVaulted =
                        FormatNumber(SumField(userVaults, "balance"))]

\* Mutant: loadData does not refresh the wallet balances.
M_LoadDataWallet_noRefresh(v, d) == d

\* loadData, its last step: if (this.walletConnected) updateWalletBalances().
LoadDataWallet(v, d) ==
    IF v.walletConnected THEN UpdateWalletBalances(v, d) ELSE d

\* Mutant: the endpoint is built from the address as typed, not trimmed.
M_SelectSource_untrimmed(selectedSource, contractInput) ==
    IF selectedSource = "snapshot"
    THEN [ok |-> TRUE, error |-> None,
          src |-> Some(NewLocalFileSource("./ardrive_token_state.json"))]
    ELSE IF selectedSource = "api"
    THEN IF Trim(contractInput) = <<>>
         THEN [ok |-> FALSE, src |-> None,
               error |-> Some("Please enter a contract address")]
         ELSE [ok |-> TRUE, error |-> None,
               src |-> Some(NewApiSource(ApiEndpoint(contractInput), None))]
    ELSE IF selectedSource = "compute"
    THEN [ok |-> FALSE, src |-> None,
          error |-> Some("Compute State source not yet implemented")]
    ELSE [ok |-> FALSE, src |-> None,
          error |-> Some("Please select a data source")]

\* handleLoadData, the switch on the selected source: the source it
\* creates, or the message of the error it throws.
SelectSource(selectedSource, contractInput) ==
    IF selectedSource = "snapshot"
    THEN [ok |-> TRUE, error |-> None,
          src |-> Some(NewLocalFileSource("./ardrive_token_state.json"))]
    ELSE IF selectedSource = "api"
    THEN IF Trim(contractInput) = <<>>
         THEN [ok |-> FALSE, src |-> None,
               error |-> Some("Please enter a contract address")]
         ELSE [ok |-> TRUE, error |-> None,
               src |-> Some(NewApiSource(ApiEndpoint(Trim(contractInput)), None))]
    ELSE IF selectedSource = "compute"
    THEN [ok |-> FALSE, src |-> None,
          error |-> Some("Compute State source not yet implemented")]
    ELSE [ok |-> FALSE, src |-> None,
          error |-> Some("Please select a data source")]

\* Mutant: loadData does not reset filteredBalances.
M_LoadData_keepFiltered(v, doc) ==
    [v EXCEPT !.state = Some(doc),
              !.sourceCode = None, !.sourceTxId = None,
              !.balancesData = BalanceRows(doc),
              !.vaultsData = VaultRows(doc),
              !.filteredVaults = VaultRows(doc)]

\* Mutant: loadData builds vault rows only when the document has a vault.
M_LoadData_skipsNoVault(v, doc) ==
    IF IsSome(Val(doc.state).vault)
    THEN [v EXCEPT !.state = Some(doc),
                   !.sourceCode = None, !.sourceTxId = None,
                   !.balancesData = BalanceRows(doc),
                   !.filteredBalances = BalanceRows(doc),
                   !.vaultsData = VaultRows(doc),
                   !.filteredVaults = VaultRows(doc)]
    ELSE [v EXCEPT !.state = Some(doc),
                   !.sourceCode = None, !.sourceTxId = None,
                   !.balancesData = BalanceRows(doc),
                   !.filteredBalances = BalanceRows(doc)]

\* Mutant: loadData does not reset filteredVaults.
M_LoadData_keepFilteredVaults(v, doc) ==
    [v EXCEPT !.state = Some(doc),
              !.sourceCode = None, !.sourceTxId = None,
              !.balancesData = BalanceRows(doc),
              !.filteredBalances = BalanceRows(doc),
              !.vaultsData = VaultRows(doc)]

\* loadData after fetchState resolved with doc: the viewer afterwards.  The
\* source code cached for the contract before is dropped.
LoadData(v, doc) ==
    [v EXCEPT !.state = Some(doc),
              !.sourceCode = None, !.sourceTxId = None,
              !.balancesData = BalanceRows(doc),
              !.filteredBalances = BalanceRows(doc),
              !.vaultsData = VaultRows(doc),
              !.filteredVaults = VaultRows(doc)]

\* Mutant: handleLoadData leaves the load button enabled while it loads.
M_HandleLoadDataStart_buttonEnabled(selectedSource, contractInput) ==
    LET sel == SelectSource(selectedSource, contractInput) IN
    IF sel.ok
    THEN /\ viewer' = [viewer EXCEPT !.dataSource = sel.src]
         /\ dom' = [dom EXCEPT !.started = TRUE, !.listening = TRUE,
                               !.loadBtnDisabled = FALSE, !.loading = TRUE,
                               !.error = None]
         /\ loads' = [d \in {[c EXCEPT !.current = FALSE] :
                                    c \in BagToSet(loads)} |->
                         CopiesIn(d, loads)
                            + CopiesIn([d EXCEPT !.current = TRUE], loads)]
                     (+) SetToBag({[src |-> Val(sel.src), current |-> TRUE]})
    ELSE /\ dom' = [dom EXCEPT !.started = TRUE, !.listening = TRUE,
                               !.loadBtnDisabled = FALSE, !.loading = FALSE,
                               !.error = sel.error]
         /\ UNCHANGED <<viewer, loads>>

\* Mutant: no finally block, a load that throws before its fetch leaves the
\* load button disabled.
M_HandleLoadDataStart_noFinally(selectedSource, contractInput) ==
    LET sel == SelectSource(selectedSource, contractInput) IN
    IF sel.ok
    THEN /\ viewer' = [viewer EXCEPT !.dataSource = sel.src]
         /\ dom' = [dom EXCEPT !.started = TRUE, !.listening = TRUE,
                               !.loadBtnDisabled = TRUE, !.loading = TRUE,
                               !.error = None]
         /\ loads' = [d \in {[c EXCEPT !.current = FALSE] :
                                    c \in BagToSet(loads)} |->
                         CopiesIn(d, loads)
                            + CopiesIn([d EXCEPT !.current = TRUE], loads)]
                     (+) SetToBag({[src |-> Val(sel.src), current |-> TRUE]})
    ELSE /\ dom' = [dom EXCEPT !.started = TRUE, !.listening = TRUE,
                               !.loadBtnDisabled = TRUE, !.loading = FALSE,
                               !.error = sel.error]
         /\ UNCHANGED <<viewer, loads>>

\* Mutant: the load calls fetchState a second time.
M_HandleLoadDataStart_fetchesTwice(selectedSource, contractInput) ==
    LET sel == SelectSource(selectedSource, contractInput) IN
    IF sel.ok
    THEN /\ viewer' = [viewer EXCEPT !.dataSource = sel.src]
         /\ dom' = [dom EXCEPT !.started = TRUE, !.listening = TRUE,
                               !.loadBtnDisabled = TRUE, !.loading = TRUE,
                               !.error = None]
         /\ loads' = [d \in {[c EXCEPT !.current = FALSE] :
                                    c \in BagToSet(loads)} |->
                         CopiesIn(d, loads)
                            + CopiesIn([d EXCEPT !.current = TRUE], loads)]
                     (+) SetToBag({[src |-> Val(sel.src), current |-> TRUE]})
                     (+) SetToBag({[src |-> Val(sel.src), current |-> TRUE]})
    ELSE /\ dom' = [dom EXCEPT !.started = TRUE, !.listening = TRUE,
                               !.loadBtnDisabled = FALSE, !.loading = FALSE,
                               !.error = sel.error]
         /\ UNCHANGED <<viewer, loads>>

\* handleLoadData up to the await in loadData: the button is disabled, the
\* indicator shown and the error cleared; then either the switch throws
\* (error shown, indicator hidden, button enabled again) or the new source
\* is stored and its fetchState is called.
HandleLoadDataStart(selectedSource, contractInput) ==
    LET sel == SelectSource(selectedSource, contractInput) IN
    IF sel.ok
    THEN /\ viewer' = [viewer EXCEPT !.dataSource = sel.src]
         /\ dom' = [dom EXCEPT !.started = TRUE, !.listening = TRUE,
                               !.loadBtnDisabled = TRUE, !.loading = TRUE,
                               !.error = None]
         /\ loads' = [d \in {[c EXCEPT !.current = FALSE] :
                                    c \in BagToSet(loads)} |->
                         CopiesIn(d, loads)
                            + CopiesIn([d EXCEPT !.current = TRUE], loads)]
                     (+) SetToBag({[src |-> Val(sel.src), current |-> TRUE]})
    ELSE /\ dom' = [dom EXCEPT !.started = TRUE, !.listening = TRUE,
                               !.loadBtnDisabled = FALSE, !.loading = FALSE,
                               !.error = sel.error]
         /\ UNCHANGED <<viewer, loads>>

\* init(): on a file: page it shows an error and sets up nothing; otherwise
\* it sets up the listeners and runs handleLoadData with the page's
\* initial selection.
init(protocol, selectedSource, contractInput) ==
    /\ ~dom.started
    /\ IF protocol = "file:"
       THEN /\ dom' = [dom EXCEPT !.started = TRUE, !.loading = FALSE,
                          !.error = Some("This app must be served via HTTP")]
            /\ UNCHANGED <<viewer, loads>>
       ELSE HandleLoadDataStart(selectedSource, contractInput)
    /\ UNCHANGED <<srcVars, pending>>

\* A click on the load button: handleLoadData up to its await.
handleLoadData(selectedSource, contractInput) ==
    /\ dom.listening
    /\ ~dom.loadBtnDisabled
    /\ HandleLoadDataStart(selectedSource, contractInput)
    /\ UNCHANGED <<srcVars, pending>>

\* Mutant: the result of a load that is no longer the latest one started
\* is dropped.
M_handleLoadData_settled_dropsStale(load, resp) ==
    /\ BagIn(load, loads)
    /\ LET out == IF load.src.kind = "LocalFileSource"
                  THEN LocalFetchSettled(load.src, resp)
                  ELSE ApiFetchSettled(load.src, resp, now)
           held == IF load.current
                   THEN [viewer EXCEPT !.dataSource = Some(out.src)]
                   ELSE viewer IN
       IF out.ok /\ ~load.current
       THEN /\ viewer' = held
            /\ dom' = [dom EXCEPT !.loading = FALSE,
                                   !.loadBtnDisabled = FALSE]
       ELSE IF out.ok
       THEN /\ viewer' = LoadData(held, Val(out.value))
            /\ dom' = [RenderBalances(viewer', LoadDataWallet(viewer', dom))
                          EXCEPT !.loading = FALSE,
                                 !.loadBtnDisabled = FALSE]
       ELSE /\ viewer' = held
            /\ dom' = [dom EXCEPT
                          !.error = Some(IF load.src.kind = "LocalFileSource"
                                         THEN "Error loading local file"
                                         ELSE "Error fetching from API"),
                          !.loading = FALSE, !.loadBtnDisabled = FALSE]
    /\ loads' = loads (-) SetToBag({load})
    /\ UNCHANGED <<srcVars, pending>>

\* Mutant: a load whose read fails drops the state loaded before.
M_handleLoadData_settled_clearsOnError(load, resp) ==
    /\ BagIn(load, loads)
    /\ LET out == IF load.src.kind = "LocalFileSource"
                  THEN LocalFetchSettled(load.src, resp)
                  ELSE ApiFetchSettled(load.src, resp, now)
           held == IF load.current
                   THEN [viewer EXCEPT !.dataSource = Some(out.src)]
                   ELSE viewer IN
       IF out.ok
       THEN /\ viewer' = LoadData(held, Val(out.value))
            /\ dom' = [RenderBalances(viewer', LoadDataWallet(viewer', dom))
                          EXCEPT !.loading = FALSE,
                                 !.loadBtnDisabled = FALSE]
       ELSE /\ viewer' = [held EXCEPT !.state = None]
            /\ dom' = [dom EXCEPT
                          !.error = Some(IF load.src.kind = "LocalFileSource"
                                         THEN "Error loading local file"
                                         ELSE "Error fetching from API"),
                          !.loading = FALSE, !.loadBtnDisabled = FALSE]
    /\ loads' = loads (-) SetToBag({load})
    /\ UNCHANGED <<srcVars, pending>>

\* The read of a pending load settles: fetchState finishes on the load's
\* source, then loadData and handleLoadData run to their end.
handleLoadData_settled(load, resp) ==
    /\ BagIn(load, loads)
    /\ LET out == IF load.src.kind = "LocalFileSource"
                  THEN LocalFetchSettled(load.src, resp)
                  ELSE ApiFetchSettled(load.src, resp, now)
           held == IF load.current
                   THEN [viewer EXCEPT !.dataSource = Some(out.src)]
                   ELSE viewer IN
       IF out.ok
       THEN /\ viewer' = LoadData(held, Val(out.value))
            /\ dom' = [RenderBalances(viewer', LoadDataWallet(viewer', dom))
                          EXCEPT !.loading = FALSE,
                                 !.loadBtnDisabled = FALSE]
       ELSE /\ viewer' = held
            /\ dom' = [dom EXCEPT
                          !.error = Some(IF load.src.kind = "LocalFileSource"
                                         THEN "Error loading local file"
                                         ELSE "Error fetching from API"),
                          !.loading = FALSE, !.loadBtnDisabled = FALSE]
    /\ loads' = loads (-) SetToBag({load})
    /\ UNCHANGED <<srcVars, pending>>

\* Input in the balance search box.
filterBalances(searchTerm) ==
    /\ dom.listening
    /\ viewer' = [viewer EXCEPT
                    !.filteredBalances = FilterRows(viewer.balancesData, searchTerm)]
    /\ dom' = RenderBalances(viewer', dom)
    /\ UNCHANGED loads
    /\ UNCHANGED <<srcVars, pending>>

\* Input in the vault search box.
filterVaults(searchTerm) ==
    /\ dom.listening
    /\ viewer' = [viewer EXCEPT
                    !.filteredVaults = FilterRows(viewer.vaultsData, searchTerm)]
    /\ UNCHANGED <<dom, loads>>
    /\ UNCHANGED <<srcVars, pending>>

\* Mutant: the displayed array is the full array itself, so that the sort
\* in place reorders balancesData / vaultsData as well.
M_handleColumnSort_sortsFull(th, tableType) ==
    /\ dom.listening
    /\ LET balance == tableType = "balance"
           sortState == NextSortState(
                            IF balance THEN viewer.balanceSortState
                            ELSE viewer.vaultSortState, th.column)
           marked == IF balance
                     THEN [viewer EXCEPT !.balanceSortState = sortState]
                     ELSE [viewer EXCEPT !.vaultSortState = sortState] IN
       IF IsSome(sortState.column) /\ IsSome(sortState.direction)
       THEN IF balance
            THEN /\ viewer' = [marked EXCEPT
                                  !.filteredBalances =
                                      SortRows(viewer.filteredBalances, th.column,
                                               Val(sortState.direction), th.type),
                                  !.balancesData =
                                      SortRows(viewer.balancesData, th.column,
                                               Val(sortState.direction), th.type)]
                 /\ dom' = RenderBalances(viewer', dom)
            ELSE /\ viewer' = [marked EXCEPT
                                  !.filteredVaults =
                                      SortRows(viewer.filteredVaults, th.column,
                                               Val(sortState.direction), th.type),
                                  !.vaultsData =
                                      SortRows(viewer.vaultsData, th.column,
                                               Val(sortState.direction), th.type)]
                 /\ UNCHANGED dom
       ELSE IF balance
            THEN /\ viewer' = [marked EXCEPT !.filteredBalances =
                                  ResetOrder(viewer.balancesData,
                                             viewer.filteredBalances)]
                 /\ dom' = RenderBalances(viewer', dom)
            ELSE /\ viewer' = marked
                 /\ UNCHANGED dom
    /\ UNCHANGED loads
    /\ UNCHANGED <<srcVars, pending>>

\* handleColumnSort(th, tableType): a click on a sortable header.  Only the
\* headers of the balances table are wired to it; the method also takes
\* tableType 'vault'.
handleColumnSort(th, tableType) ==
    /\ dom.listening
    /\ LET balance == tableType = "balance"
           sortState == NextSortState(
                            IF balance THEN viewer.balanceSortState
                            ELSE viewer.vaultSortState, th.column)
           marked == IF balance
                     THEN [viewer EXCEPT !.balanceSortState = sortState]
                     ELSE [viewer EXCEPT !.vaultSortState = sortState] IN
       IF IsSome(sortState.column) /\ IsSome(sortState.direction)
       THEN IF balance
            THEN /\ viewer' = [marked EXCEPT !.filteredBalances =
                                  SortRows(viewer.filteredBalances, th.column,
                                           Val(sortState.direction), th.type)]
                 /\ dom' = RenderBalances(viewer', dom)
            ELSE /\ viewer' = [marked EXCEPT !.filteredVaults =
                                  SortRows(viewer.filteredVaults, th.column,
                                           Val(sortState.direction), th.type)]
                 /\ UNCHANGED dom
       ELSE IF balance
            THEN /\ viewer' = [marked EXCEPT !.filteredBalances =
                                  ResetOrder(viewer.balancesData,
                                             viewer.filteredBalances)]
                 /\ dom' = RenderBalances(viewer', dom)
            ELSE /\ viewer' = marked
                 /\ UNCHANGED dom
    /\ UNCHANGED loads
    /\ UNCHANGED <<srcVars, pending>>

Init ==
    /\ src = NewDataSource
    /\ now = 1
    /\ calls = EmptyBag
    /\ ev = NoEvent
    /\ hist = [lastOk |-> None, firstOk |-> None, cleared |-> FALSE,
               fresh |-> FALSE]
    /\ ViewIdle

Next ==
    \/ \E p \in {"http:", "file:"} : init(p, "snapshot", <<>>)
    \/ handleLoadData("snapshot", <<>>)
    \/ \E load \in BagToSet(loads), resp \in PipelineResponses :
            handleLoadData_settled(load, resp)
    \/ \E t \in SearchTerms : filterBalances(t)
    \/ \E t \in SearchTerms : filterVaults(t)
    \/ \E tableType \in {"balance", "vault"} :
            \E th \in Headers(tableType) : handleColumnSort(th, tableType)

Spec == Init /\ [][Next]_vars

----------------------------------------------------------------------------
(* Properties of the viewer *)

\* The entries of the balances object of a document.
BalancesOf(doc) == doc.state[1].balances[1]

RECURSIVE SumOfBalances(_)
SumOfBalances(balances) ==
    IF balances = <<>> THEN 0
    ELSE balances[Len(balances)][2]
            + SumOfBalances(SubSeq(balances, 1, Len(balances) - 1))

\* A pending load settles to document doc in this step.
LoadSettles(doc) ==
    \E load \in BagToSet(loads) :
        handleLoadData_settled(load, [kind |-> "json", data |-> Some(doc)])

\* C8: after loadData succeeds on a document whose state.balances has N
\* entries (the load settles on it and it is the viewer's state), balancesData
\* has N rows, row i the address and balance of entry i, filteredBalances
\* equals balancesData, and the displayed total supply is the sum of the N
\* balances.
C8_LoadYieldsRows ==
    [][\A doc \in ViewDocs :
        (/\ loads' # loads
         /\ HasBalances(doc)
         /\ viewer'.state = Some(doc)
         /\ LoadSettles(doc)) =>
            /\ Len(viewer'.balancesData) = Len(BalancesOf(doc))
            /\ \A i \in 1..Len(BalancesOf(doc)) :
                /\ viewer'.balancesData[i].address = BalancesOf(doc)[i][1]
                /\ viewer'.balancesData[i].balance = BalancesOf(doc)[i][2]
            /\ viewer'.filteredBalances = viewer'.balancesData
            /\ dom'.totalAddresses = Len(BalancesOf(doc))
            /\ dom'.totalSupply = SumOfBalances(BalancesOf(doc))]_vars

C8_Witness ==
    /\ IsSome(viewer.state)
    /\ Len(BalancesOf(Val(viewer.state))) = 2
    /\ Len(viewer.balancesData) = 2
    /\ viewer.balancesData[1].balance = 1 /\ viewer.balancesData[2].balance = 2
    /\ viewer.filteredBalances = viewer.balancesData
    /\ dom.totalSupply = 3
    /\ ~dom.loading /\ loads = EmptyBag

\* The rows of a collection selected by a typed term: those whose
\* lower-cased address contains the lower-cased, trimmed term, in the order
\* of the collection; all of them when that term is empty.
RECURSIVE Matching(_, _)
Matching(rows, typed) ==
    LET term == Trim(Lower(typed)) IN
    IF rows = <<>> THEN <<>>
    ELSE IF term = <<>> \/ Includes(Lower(Head(rows).address), term)
    THEN <<Head(rows)>> \o Matching(Tail(rows), typed)
    ELSE Matching(Tail(rows), typed)

\* C9: filterBalances(term) / filterVaults(term) make the filtered
\* collection exactly the rows of balancesData / vaultsData whose lower-cased
\* address contains the lower-cased, trimmed term (all rows when it is
\* empty), whatever filters and sorts came before, and leave the full
\* collections alone.
C9_FilterSelects ==
    [][\A t \in SearchTerms :
        /\ (loads' = loads /\ viewer'.filteredVaults = viewer.filteredVaults
                /\ filterBalances(t)) =>
            /\ viewer'.filteredBalances = Matching(viewer.balancesData, t)
            /\ Trim(Lower(t)) = <<>> =>
                    viewer'.filteredBalances = viewer.balancesData
            /\ viewer'.balancesData = viewer.balancesData
        /\ (loads' = loads /\ dom' = dom /\ filterVaults(t)) =>
            /\ viewer'.filteredVaults = Matching(viewer.vaultsData, t)
            /\ Trim(Lower(t)) = <<>> =>
                    viewer'.filteredVaults = viewer.vaultsData
            /\ viewer'.vaultsData = viewer.vaultsData]_vars

\* A state only filters with a matching, non-empty term leave: of the two
\* balance rows "B" and "Ab" the second alone is displayed (term "a" in any
\* case and padding), and of the two vault rows the first alone.
C9_Witness ==
    /\ Len(viewer.balancesData) = 2
    /\ viewer.balancesData[1].address = Str_B
    /\ viewer.balancesData[2].address = Str_Ab
    /\ viewer.filteredBalances = <<viewer.balancesData[2]>>

C9_WitnessVaults ==
    /\ Len(viewer.vaultsData) = 2
    /\ viewer.vaultsData[1].address = Str_Ab
    /\ viewer.filteredVaults = <<viewer.vaultsData[1]>>

Unsorted == [column |-> None, direction |-> None]

\* The sort state a click on column is to give after sort state before.
Clicked(before, column) ==
    IF before = [column |-> Some(column), direction |-> Some("asc")]
    THEN [column |-> Some(column), direction |-> Some("desc")]
    ELSE IF before = [column |-> Some(column), direction |-> Some("desc")]
    THEN Unsorted
    ELSE [column |-> Some(column), direction |-> Some("asc")]

\* C10: per table, clicks on the same column take the sort state from
\* unsorted to ascending to descending to unsorted, and a click on another
\* column than the sorted one gives ascending on the clicked column; the
\* other table's sort state is untouched.
C10_SortCycle ==
    [][\A th \in Headers("balance") \cup Headers("vault") :
        /\ (th \in Headers("balance") /\ handleColumnSort(th, "balance")) =>
            /\ viewer'.balanceSortState
                    = Clicked(viewer.balanceSortState, th.column)
            /\ viewer'.vaultSortState = viewer.vaultSortState
        /\ (th \in Headers("vault") /\ handleColumnSort(th, "vault")) =>
            /\ viewer'.vaultSortState
                    = Clicked(viewer.vaultSortState, th.column)
            /\ viewer'.balanceSortState = viewer.balanceSortState]_vars

C10_Witness ==
    /\ viewer.balanceSortState
            = [column |-> Some("balance"), direction |-> Some("desc")]
    /\ viewer.vaultSortState
            = [column |-> Some("address"), direction |-> Some("asc")]

----------------------------------------------------------------------------
(* Properties of sorting *)

\* The sort key of a row under a header: the number for a column of type
\* number, the lower-cased string for any other column.
SortKey(row, th) ==
    IF th.type = "number" THEN row[th.column] ELSE Lower(row[th.column])

\* Where the row of an address stands in a collection (0: nowhere).
Pos(rows, address) ==
    IF \E i \in 1..Len(rows) : rows[i].address = address
    THEN CHOOSE i \in 1..Len(rows) : rows[i].address = address
    ELSE 0

\* Rows of after that tie on the key of th stand in the order they have in
\* ref.
TiesFollow(after, ref, th) ==
    \A i, j \in 1..Len(after) :
        (i < j /\ SortKey(after[i], th) = SortKey(after[j], th)) =>
            Pos(ref, after[i].address) < Pos(ref, after[j].address)

AllHeaders == Headers("balance") \cup Headers("vault")

\* This step is a click on th of the balances / vaults table that sorts
\* (the new sort state has a direction).
SortsBalances(th) ==
    /\ th \in Headers("balance")
    /\ viewer'.vaultSortState = viewer.vaultSortState
    /\ IsSome(viewer'.balanceSortState.direction)
    /\ handleColumnSort(th, "balance")

SortsVaults(th) ==
    /\ th \in Headers("vault")
    /\ viewer'.balanceSortState = viewer.balanceSortState
    /\ IsSome(viewer'.vaultSortState.direction)
    /\ handleColumnSort(th, "vault")

\* C11 as stated: after a sort of the displayed collection by a column, rows
\* with equal sort keys stand in their insertion order (their order in
\* balancesData / vaultsData), whatever filters and sorts came before.
C11_TiesInInsertionOrder ==
    [][\A th \in AllHeaders :
        /\ SortsBalances(th) =>
            TiesFollow(viewer'.filteredBalances, viewer.balancesData, th)
        /\ SortsVaults(th) =>
            TiesFollow(viewer'.filteredVaults, viewer.vaultsData, th)]_vars

\* C11, amended: after a sort of the displayed collection by a column, rows
\* with equal sort keys keep the order they had in the displayed collection
\* just before that sort.
C11_TiesKeepDisplayedOrder ==
    [][\A th \in AllHeaders :
        /\ SortsBalances(th) =>
            TiesFollow(viewer'.filteredBalances, viewer.filteredBalances, th)
        /\ SortsVaults(th) =>
            TiesFollow(viewer'.filteredVaults, viewer.filteredVaults, th)]_vars

\* Sorted by address, two displayed rows that tie ("ab" and "Ab") stand
\* against their insertion order: an earlier sort by balance put them so.
C11_Witness ==
    /\ viewer.balanceSortState
            = [column |-> Some("address"), direction |-> Some("asc")]
    /\ Len(viewer.filteredBalances) = 2
    /\ Lower(viewer.filteredBalances[1].address)
            = Lower(viewer.filteredBalances[2].address)
    /\ viewer.filteredBalances[1] = viewer.balancesData[2]
    /\ viewer.filteredBalances[2] = viewer.balancesData[1]

\* after holds the rows of before, each once.
IsPermutation(after, before) ==
    /\ Len(after) = Len(before)
    /\ \A i \in 1..Len(before) : \E j \in 1..Len(after) : after[j] = before[i]
    /\ \A i, j \in 1..Len(after) : after[i] = after[j] => i = j

\* Key k1 is at most key k2: numbers by value, strings by code units.
KeyLeq(k1, k2, th) ==
    IF th.type = "number" THEN k1 <= k2 ELSE ~StrLess(k2, k1)

\* rows is non-decreasing (asc) or non-increasing (desc) in the key of th.
Ordered(rows, th, direction) ==
    \A i, j \in 1..Len(rows) :
        i < j =>
            IF direction = "asc"
            THEN KeyLeq(SortKey(rows[i], th), SortKey(rows[j], th), th)
            ELSE KeyLeq(SortKey(rows[j], th), SortKey(rows[i], th), th)

\* C12: right after sortByColumn with direction asc (desc) the displayed
\* collection is a permutation of what it was before and is non-decreasing
\* (non-increasing) in the sort key: the number for a column of type number,
\* the lower-cased string for any other column.
C12_SortedPermutation ==
    [][\A th \in AllHeaders :
        /\ SortsBalances(th) =>
            /\ IsPermutation(viewer'.filteredBalances, viewer.filteredBalances)
            /\ Ordered(viewer'.filteredBalances, th,
                       Val(viewer'.balanceSortState.direction))
        /\ SortsVaults(th) =>
            /\ IsPermutation(viewer'.filteredVaults, viewer.filteredVaults)
            /\ Ordered(viewer'.filteredVaults, th,
                       Val(viewer'.vaultSortState.direction))]_vars

\* Sorted by address descending, "B" is displayed before "ab" (by code
\* units "B" is the smaller), against the insertion order.
C12_Witness ==
    /\ viewer.balanceSortState
            = [column |-> Some("address"), direction |-> Some("desc")]
    /\ Len(viewer.filteredBalances) = 2
    /\ viewer.filteredBalances[1].address = Str_B
    /\ viewer.filteredBalances[2].address = Str_ab
    /\ viewer.balancesData[1].address = Str_ab

\* The vault table sorted by total descending, against the insertion order.
C12_WitnessVaults ==
    /\ viewer.vaultSortState
            = [column |-> Some("total"), direction |-> Some("desc")]
    /\ Len(viewer.filteredVaults) = 2
    /\ viewer.filteredVaults[1].total > viewer.filteredVaults[2].total
    /\ viewer.filteredVaults[1] = viewer.vaultsData[2]

\* rows stands in the order of full.
InInsertionOrder(rows, full) ==
    \A i, j \in 1..Len(rows) :
        i < j => Pos(full, rows[i].address) < Pos(full, rows[j].address)

\* This step is a click on th of the balances / vaults table that takes the
\* table's sort state from descending to unsorted.
UnsortsBalances(th) ==
    /\ th \in Headers("balance")
    /\ viewer.balanceSortState
            = [column |-> Some(th.column), direction |-> Some("desc")]
    /\ viewer'.vaultSortState = viewer.vaultSortState
    /\ handleColumnSort(th, "balance")

UnsortsVaults(th) ==
    /\ th \in Headers("vault")
    /\ viewer.vaultSortState
            = [column |-> Some(th.column), direction |-> Some("desc")]
    /\ viewer'.balanceSortState = viewer.balanceSortState
    /\ handleColumnSort(th, "vault")

C13_BalancesRestoreOrder ==
    [][\A th \in Headers("balance") :
        UnsortsBalances(th) =>
            /\ IsPermutation(viewer'.filteredBalances, viewer.filteredBalances)
            /\ InInsertionOrder(viewer'.filteredBalances, viewer.balancesData)]_vars

----------------------------------------------------------------------------
(* Properties of the rows *)

\* The vault object of a document (no entries when the document has none).
VaultOf(doc) ==
    IF doc.state[1].vault = <<>> THEN <<>> ELSE doc.state[1].vault[1]

\* The entries a vault object holds under an address (none: <<>>).
EntriesAt(vault, address) ==
    IF \E i \in 1..Len(vault) : vault[i][1] = address
    THEN (CHOOSE e \in {vault[i] : i \in 1..Len(vault)} : e[1] = address)[2]
    ELSE <<>>

RECURSIVE SumOfEntries(_)
SumOfEntries(entries) ==
    IF entries = <<>> THEN 0
    ELSE entries[Len(entries)].balance
            + SumOfEntries(SubSeq(entries, 1, Len(entries) - 1))

\* A vault row carries the total of its address in the loaded state.
TotalIsSum(row) ==
    /\ IsSome(viewer.state)
    /\ \E i \in 1..Len(VaultOf(Val(viewer.state))) :
            VaultOf(Val(viewer.state))[i][1] = row.address
    /\ row.total
            = SumOfEntries(EntriesAt(VaultOf(Val(viewer.state)), row.address))

\* C14: in every reachable state each vault row's total, in vaultsData and
\* in the displayed collection, is the sum of the balance fields of that
\* address's vault entries in the loaded state: loadData assigns the totals
\* and no filter or sort changes one.
C14_VaultTotals ==
    /\ \A i \in 1..Len(viewer.vaultsData) : TotalIsSum(viewer.vaultsData[i])
    /\ \A i \in 1..Len(viewer.filteredVaults) :
            TotalIsSum(viewer.filteredVaults[i])

\* Vault rows with totals 2 and 3 (one and two entries), displayed after a
\* sort by total descending and a filter that keeps both.
C14_Witness ==
    /\ Len(viewer.vaultsData) = 2
    /\ viewer.vaultsData[1].total = 2 /\ Len(viewer.vaultsData[1].entries) = 1
    /\ viewer.vaultsData[2].total = 3 /\ Len(viewer.vaultsData[2].entries) = 2
    /\ viewer.filteredVaults = <<viewer.vaultsData[2], viewer.vaultsData[1]>>

\* rows is the projection of the balances of doc: one row per entry, in
\* the entries' order.
IsBalanceProjection(rows, doc) ==
    /\ Len(rows) = Len(BalancesOf(doc))
    /\ \A i \in 1..Len(rows) :
            rows[i] = [address |-> BalancesOf(doc)[i][1],
                       balance |-> BalancesOf(doc)[i][2]]

\* rows is the projection of the vault of doc.
IsVaultProjection(rows, doc) ==
    /\ Len(rows) = Len(VaultOf(doc))
    /\ \A i \in 1..Len(rows) :
            rows[i] = [address |-> VaultOf(doc)[i][1],
                       entries |-> VaultOf(doc)[i][2],
                       total |-> SumOfEntries(VaultOf(doc)[i][2])]

\* Every row of shown is a row of full.
RowsAmong(shown, full) ==
    \A i \in 1..Len(shown) : \E j \in 1..Len(full) : shown[i] = full[j]

\* C15: between events balancesData and vaultsData are exactly the
\* projections of the viewer's current state (empty before the first load),
\* and the displayed rows are rows of them: a load replaces state, rows and
\* displayed rows together, so no handler sees the new state with rows of
\* the previous one.
C15_RowsProjectState ==
    /\ viewer.state = None =>
            /\ viewer.balancesData = <<>> /\ viewer.vaultsData = <<>>
            /\ viewer.filteredBalances = <<>> /\ viewer.filteredVaults = <<>>
    /\ IsSome(viewer.state) =>
            /\ IsBalanceProjection(viewer.balancesData, Val(viewer.state))
            /\ IsVaultProjection(viewer.vaultsData, Val(viewer.state))
            /\ RowsAmong(viewer.filteredBalances, viewer.balancesData)
            /\ RowsAmong(viewer.filteredVaults, viewer.vaultsData)

\* A second load is in flight while the viewer holds the document of the
\* first, which has vault rows, filtered and sorted.
C15_Witness ==
    /\ IsSome(viewer.state)
    /\ Val(viewer.state).contractTxId = "contractB"
    /\ Len(viewer.vaultsData) = 2
    /\ Len(viewer.filteredVaults) = 1
    /\ loads # EmptyBag
    /\ IsSome(viewer.balanceSortState.direction)

\* The viewer holds a document without vault, loaded over one with vault
\* rows.
C15_WitnessReplaced ==
    /\ IsSome(viewer.state)
    /\ Val(viewer.state).contractTxId = "contractA"
    /\ viewer.vaultsData = <<>>
    /\ IsSome(viewer.vaultSortState.direction)
    /\ Len(viewer.balancesData) = 2

----------------------------------------------------------------------------
(* The load action with every source choice (SpecLoad) *)

\* What a read can yield in SpecLoad: two documents and the two malformed
\* ones, or a failure of any kind.
LoadDocs == {PayA, PayB, PayNoState, PayNoBalances}

LoadResponses == Responses(LoadDocs)

\* The page with any selection of the data source radio group and any
\* content of the contract address input, while time passes.
LoadNext ==
    \/ \E p \in {"http:", "file:"}, s \in SourceChoices, c \in ContractInputs :
            init(p, s, c)
    \/ \E s \in SourceChoices, c \in ContractInputs : handleLoadData(s, c)
    \/ \E load \in BagToSet(loads), resp \in LoadResponses :
            handleLoadData_settled(load, resp)
    \/ Tick /\ UNCHANGED viewVars

SpecLoad == Init /\ [][LoadNext]_vars

\* C16: at no time are two state fetches of the viewer in flight: while a
\* load is in flight the load button is disabled, so no second load starts,
\* and once the load has finished the button is enabled again.
C16_OneFetchInFlight ==
    /\ BagCardinality(loads) <= 1
    /\ loads # EmptyBag => dom.loadBtnDisabled /\ dom.loading
    /\ loads = EmptyBag => ~dom.loadBtnDisabled

\* A second load is in flight, started after the first one finished.
C16_Witness ==
    /\ BagCardinality(loads) = 1
    /\ dom.loadBtnDisabled
    /\ IsSome(viewer.state)
    /\ viewer.dataSource # None
    /\ Val(viewer.dataSource).cachedState = None

----------------------------------------------------------------------------
(* Overlapping loads (SpecRace) *)

\* handleLoadData called as a method, whatever the state of the load
\* button: the page itself never does this while a load is in flight.
handleLoadData_called(selectedSource, contractInput) ==
    /\ dom.listening
    /\ BagCardinality(loads) < MaxInFlight
    /\ HandleLoadDataStart(selectedSource, contractInput)
    /\ UNCHANGED <<srcVars, pending>>

RaceNext ==
    \/ \E s \in SourceChoices, c \in ContractInputs : init("http:", s, c)
    \/ \E s \in SourceChoices, c \in ContractInputs :
            handleLoadData_called(s, c)
    \/ \E load \in BagToSet(loads), resp \in LoadResponses :
            handleLoadData_settled(load, resp)

SpecRace == Init /\ [][RaceNext]_vars

\* C17: a started fetch is never cancelled: a load started while another is
\* in flight leaves that one in flight, no step takes more than the one
\* fetch that settles out of flight, and whenever a fetch resolves with a
\* document, be it of the load started last or of an earlier one, the viewer
\* takes that document as its state with its rows; so the viewer ends with
\* the state and rows of the fetch that completes last.
C17_LastCompletedWins ==
    [][/\ BagCardinality(loads') >= BagCardinality(loads) - 1
       /\ BagCardinality(loads') > BagCardinality(loads) =>
            \A load \in BagToSet(loads) :
                CopiesIn([load EXCEPT !.current = FALSE], loads')
                    >= CopiesIn(load, loads)
       /\ BagCardinality(loads') < BagCardinality(loads) =>
            \A load \in BagToSet(loads) :
                CopiesIn(load, loads') >= CopiesIn(load, loads) - 1
       /\ \A doc \in LoadDocs :
            (loads' # loads /\ HasBalances(doc) /\ LoadSettles(doc)) =>
                /\ viewer'.state = Some(doc)
                /\ IsBalanceProjection(viewer'.balancesData, doc)
                /\ IsVaultProjection(viewer'.vaultsData, doc)
                /\ viewer'.filteredBalances = viewer'.balancesData
                /\ viewer'.filteredVaults = viewer'.vaultsData]_vars

\* Two loads overlapped and the one started first completed last: the
\* viewer holds its document, while the data source it holds is the one of
\* the load started last, with the other document cached.
C17_Witness ==
    /\ loads = EmptyBag
    /\ IsSome(viewer.state) /\ IsSome(viewer.dataSource)
    /\ IsSome(Val(viewer.dataSource).cachedState)
    /\ Val(viewer.dataSource).cachedState # viewer.state

----------------------------------------------------------------------------
(* Properties of the load action *)

\* The awaited fetch of a load settles sooner or later.
FairSpecLoad ==
    /\ SpecLoad
    /\ WF_vars(\E load \in BagToSet(loads), resp \in LoadResponses :
                    handleLoadData_settled(load, resp))

\* A load with this selection and address fails before it fetches: source
\* api without an address, source compute, or no known source.
FailsBeforeFetch(selectedSource, contractInput) ==
    \/ selectedSource = "api" /\ Trim(contractInput) = <<>>
    \/ selectedSource = "compute"
    \/ selectedSource \notin {"snapshot", "api", "compute"}

\* The read of a load fails: in transport, or by a document without
\* state.balances.
FailedRead(resp) ==
    resp.kind # "json" \/ ~HasBalances(Val(resp.data))

\* The page after a failed load: message shown, indicator hidden, button
\* enabled.
ShowsFailure(d) ==
    IsSome(d.error) /\ ~d.loading /\ ~d.loadBtnDisabled

\* This step starts a load action: a click on the load button, or init.
StartsLoad(selectedSource, contractInput) ==
    \/ handleLoadData(selectedSource, contractInput)
    \/ init("http:", selectedSource, contractInput)

\* C18: every load action that fails (rejected fetchState, missing contract
\* address, unimplemented or unselected source) ends with the error message
\* displayed, the loading indicator hidden and the load button enabled, and
\* it does end: a load in flight leads to none in flight.  Every load action
\* starts by clearing the error displayed before.
C18_FailureSurfaces ==
    /\ [][/\ \A s \in SourceChoices, c \in ContractInputs :
                StartsLoad(s, c) =>
                    IF FailsBeforeFetch(s, c)
                    THEN ShowsFailure(dom') /\ loads' = loads
                    ELSE dom'.error = None /\ dom'.loading
          /\ \A load \in BagToSet(loads), resp \in LoadResponses :
                (FailedRead(resp) /\ handleLoadData_settled(load, resp)) =>
                    ShowsFailure(dom')]_vars
    /\ (loads # EmptyBag) ~>
            (loads = EmptyBag /\ ~dom.loading /\ ~dom.loadBtnDisabled)

\* A load failed in its fetch after an earlier load had succeeded.
C18_Witness ==
    /\ dom.error = Some("Error fetching from API")
    /\ ~dom.loading /\ ~dom.loadBtnDisabled
    /\ loads = EmptyBag
    /\ IsSome(viewer.state)

\* A load failed before its fetch.
C18_WitnessNoFetch ==
    /\ dom.error = Some("Compute State source not yet implemented")
    /\ ~dom.loading /\ ~dom.loadBtnDisabled
    /\ IsSome(viewer.state)

\* The settling of a fetch takes that fetch out of flight and puts none in.
SettlesOnce ==
    \A load \in BagToSet(loads), resp \in LoadResponses :
        handleLoadData_settled(load, resp) =>
            loads' = loads (-) SetToBag({load})

\* C19 as stated: each load action calls fetchState exactly once, and each
\* fetchState call issues at most one request: a failed request is not
\* retried in the same call or the same load action.
C19_OneFetchPerLoad ==
    [][/\ \A s \in SourceChoices, c \in ContractInputs :
            StartsLoad(s, c) =>
                BagCardinality(loads') = BagCardinality(loads) + 1
       /\ SettlesOnce]_vars

\* C19, amended: a load action that gets past the choice of its source calls
\* fetchState exactly once, one that fails before (no address, source
\* compute, no known source) calls it not at all; each fetchState call issues
\* at most one request, and a failed request is not retried.
C19_AtMostOneFetchPerLoad ==
    [][/\ \A s \in SourceChoices, c \in ContractInputs :
            StartsLoad(s, c) =>
                BagCardinality(loads')
                    = BagCardinality(loads)
                        + (IF FailsBeforeFetch(s, c) THEN 0 ELSE 1)
       /\ SettlesOnce]_vars

\* A read of the snapshot file failed and the load is over: nothing is in
\* flight.
C19_Witness ==
    /\ dom.error = Some("Error loading local file")
    /\ loads = EmptyBag
    /\ IsSome(viewer.dataSource)
    /\ Val(viewer.dataSource).kind = "LocalFileSource"
    /\ Val(viewer.dataSource).cachedState = None

\* The endpoint of a contract: its address between the API's base and the
\* validity query.
EndpointOf(address) ==
    [base |-> "https://api.arns.app/v1/contract/",
     contract |-> address, query |-> "?validity=true"]

\* C20: a load action with source api and an address that is empty after
\* trimming, with source compute, or with an unknown source ends in an error
\* without any fetch and without replacing the viewer's data source; with
\* source api and a non-empty address the request goes to the endpoint of
\* that (trimmed) address with validity=true.
C20_SourceSelection ==
    [][\A s \in SourceChoices, c \in ContractInputs :
        StartsLoad(s, c) =>
            IF FailsBeforeFetch(s, c)
            THEN /\ IsSome(dom'.error)
                 /\ loads' = loads
                 /\ viewer'.dataSource = viewer.dataSource
                 /\ viewer'.state = viewer.state
            ELSE IF s = "api"
            THEN /\ IsSome(viewer'.dataSource)
                 /\ Val(viewer'.dataSource).kind = "ApiSource"
                 /\ Val(viewer'.dataSource).target = Some(EndpointOf(Trim(c)))
                 /\ CopiesIn([src |-> Val(viewer'.dataSource),
                              current |-> TRUE], loads') = 1
            ELSE /\ IsSome(viewer'.dataSource)
                 /\ Val(viewer'.dataSource).kind = "LocalFileSource"
                 /\ CopiesIn([src |-> Val(viewer'.dataSource),
                              current |-> TRUE], loads') = 1]_vars

\* A request to the endpoint of contract "c", typed as " c", is in flight.
C20_Witness ==
    /\ IsSome(viewer.dataSource)
    /\ Val(viewer.dataSource).kind = "ApiSource"
    /\ Val(viewer.dataSource).target = Some(EndpointOf(<<99>>))
    /\ loads = SetToBag({[src |-> Val(viewer.dataSource), current |-> TRUE]})

\* A load without address failed and the viewer still holds the snapshot
\* source of the load before, with its cached document.
C20_WitnessNoSource ==
    /\ dom.error = Some("Please enter a contract address")
    /\ loads = EmptyBag
    /\ IsSome(viewer.dataSource)
    /\ Val(viewer.dataSource).kind = "LocalFileSource"
    /\ IsSome(Val(viewer.dataSource).cachedState)

----------------------------------------------------------------------------
(* Failed reads and the cache *)

\* The read of the last step failed: in transport, or by a document without
\* state.balances.
ReadFailed(e) == TransportFailed(e) \/ Malformed(e)

\* C21: on a LocalFileSource, a fetchState whose read fails (response not ok,
\* body not JSON, fetch rejected) or whose payload lacks state.balances fails
\* with an error and leaves cachedState null, so that the next fetchState
\* reads again.
C21_FailedReadNotCached ==
    (ev.op = "return" /\ ev.acc = "fetchState" /\ src.kind = "LocalFileSource"
        /\ ReadFailed(ev)) =>
        ~ev.ok /\ ev.value = None /\ src.cachedState = None

\* The first half of C21 alone: the call fails and changes nothing of the
\* source.
C21_FailedReadFails ==
    [][\A c \in BagToSet(calls), resp \in Responses(SrcPayloads) :
        (~(resp.kind = "json" /\ HasBalances(Val(resp.data)))
            /\ LocalFileSource_fetchState_settled(c, resp)) =>
                ~ev'.ok /\ ev'.value = None /\ src' = src]_vars

----------------------------------------------------------------------------
(* The sort state and the displayed rows *)

\* The sortable header of a table that carries a column.
HeaderOf(tableType, column) ==
    CHOOSE th \in Headers(tableType) : th.column = column

\* If the sort state has a column and a direction, rows is ordered by that
\* column in that direction.
SortedAsStated(rows, sortState, tableType) ==
    (IsSome(sortState.column) /\ IsSome(sortState.direction)) =>
        Ordered(rows, HeaderOf(tableType, Val(sortState.column)),
                Val(sortState.direction))

\* C22: whenever a table's sort state has a column and a direction, the
\* displayed collection of that table is ordered by that column in that
\* direction, after every sequence of column clicks, filter changes and
\* loads.
C22_SortStateMatchesRows ==
    /\ SortedAsStated(viewer.filteredBalances, viewer.balanceSortState,
                      "balance")
    /\ SortedAsStated(viewer.filteredVaults, viewer.vaultSortState, "vault")

\* Column clicks alone keep C22: a step that is neither a filter change nor
\* the end of a load keeps the displayed rows ordered as the sort state says.
C22_ClicksKeepOrder ==
    [][(loads' = loads
          /\ (viewer'.balanceSortState # viewer.balanceSortState
                \/ viewer'.vaultSortState # viewer.vaultSortState)) =>
        /\ SortedAsStated(viewer'.filteredBalances, viewer'.balanceSortState,
                          "balance")
              \/ viewer'.balanceSortState = viewer.balanceSortState
        /\ SortedAsStated(viewer'.filteredVaults, viewer'.vaultSortState,
                          "vault")
              \/ viewer'.vaultSortState = viewer.vaultSortState]_vars

----------------------------------------------------------------------------
(* What a failed load, a filter and a sort leave alone *)

\* The loaded data of the viewer: state, rows, displayed rows, sort states.
LoadedPart(v) ==
    <<v.state, v.balancesData, v.vaultsData, v.filteredBalances,
      v.filteredVaults, v.balanceSortState, v.vaultSortState>>

\* C23: a load action whose fetchState rejects leaves state, balancesData,
\* vaultsData, filteredBalances, filteredVaults and both sort states as they
\* were: neither its start (which may replace the data source) nor the end
\* of its failed read changes one of them.
C23_FailedLoadKeepsData ==
    [][/\ BagCardinality(loads') > BagCardinality(loads) =>
            LoadedPart(viewer') = LoadedPart(viewer)
       /\ \A load \in BagToSet(loads), resp \in PipelineResponses :
            (loads' # loads /\ FailedRead(resp)
                /\ handleLoadData_settled(load, resp)) =>
                    /\ LoadedPart(viewer') = LoadedPart(viewer)
                    /\ IsSome(dom'.error) /\ ~dom'.loading]_vars

\* A load failed while the viewer held a document, filtered to one of its
\* two rows and sorted: it still holds all of that.
C23_Witness ==
    /\ dom.error = Some("Error loading local file")
    /\ loads = EmptyBag
    /\ IsSome(viewer.state)
    /\ Len(viewer.balancesData) = 2 /\ Len(viewer.filteredBalances) = 1
    /\ IsSome(viewer.balanceSortState.direction)
    /\ IsSome(viewer.dataSource)
    /\ Val(viewer.dataSource).cachedState = None

\* The full data of the viewer: the loaded state and the full collections.
FullPart(v) == <<v.state, v.balancesData, v.vaultsData>>

\* C24: no filter or sort operation changes balancesData, vaultsData or the
\* loaded state (no step that leaves the loads in flight as they are does);
\* a step that changes one of them is the end of a load whose read yielded a
\* document with state.balances.
C24_OnlyLoadDataChangesFull ==
    [][/\ loads' = loads => FullPart(viewer') = FullPart(viewer)
       /\ FullPart(viewer') # FullPart(viewer) =>
            \E load \in BagToSet(loads), doc \in ViewDocs :
                /\ HasBalances(doc)
                /\ handleLoadData_settled(
                        load, [kind |-> "json", data |-> Some(doc)])]_vars

\* Both tables are displayed against their insertion order while the full
\* collections stand as the loaded state gives them.
C24_Witness ==
    /\ IsSome(viewer.state)
    /\ Len(viewer.vaultsData) = 2
    /\ IsVaultProjection(viewer.vaultsData, Val(viewer.state))
    /\ IsBalanceProjection(viewer.balancesData, Val(viewer.state))
    /\ viewer.filteredVaults
            = <<viewer.vaultsData[2], viewer.vaultsData[1]>>
    /\ IsSome(viewer.vaultSortState.direction)

C24_WitnessBalances ==
    /\ IsSome(viewer.state)
    /\ Len(viewer.balancesData) = 2
    /\ IsBalanceProjection(viewer.balancesData, Val(viewer.state))
    /\ viewer.filteredBalances
            = <<viewer.balancesData[2], viewer.balancesData[1]>>
    /\ viewer.balanceSortState
            = [column |-> Some("balance"), direction |-> Some("asc")]

\* No address stands twice in rows.
NoAddressTwice(rows) ==
    \A i, j \in 1..Len(rows) : rows[i].address = rows[j].address => i = j

\* C25: in every reachable state every row of filteredBalances
\* (filteredVaults) is a row of balancesData (vaultsData), and no address
\* appears twice in a filtered collection.
C25_FilteredWithinFull ==
    /\ RowsAmong(viewer.filteredBalances, viewer.balancesData)
    /\ RowsAmong(viewer.filteredVaults, viewer.vaultsData)
    /\ NoAddressTwice(viewer.filteredBalances)
    /\ NoAddressTwice(viewer.filteredVaults)

\* After a reload over sorted tables: one of two balance rows displayed, and
\* a balance sort state left from before.
C25_Witness ==
    /\ Len(viewer.balancesData) = 2
    /\ Len(viewer.filteredBalances) = 1
    /\ viewer.filteredBalances[1] = viewer.balancesData[2]
    /\ viewer.vaultsData = <<>>
    /\ IsSome(viewer.vaultSortState.direction)
    /\ loads # EmptyBag

----------------------------------------------------------------------------
(* TokenStateViewer: the source tab (SpecSource) *)

\* A handler other than a load that awaits its I/O: the call it awaits and
\* what it holds in its local variables (the contract id, the transfer's
\* target and quantity).
Awaiting(op, contract, target, qty) ==
    [op |-> op, contract |-> contract, target |-> target, qty |-> qty]

\* What the network holds: the Contract-Src tag of a contract's transaction
\* (fetchSourceTxId) and the text stored under a source transaction
\* (fetchSourceCode).  Both are fixed once written.
SourceTxIdOf(contractId) == [srcOf |-> contractId]
SourceCodeOf(sourceTxId) == [codeOf |-> sourceTxId]

\* renderSourceCode: the pane shows this.sourceTxId and this.sourceCode.
RenderSourceCode(v, d) ==
    [d EXCEPT !.sourcePane =
        [kind |-> "code", txId |-> v.sourceTxId, code |-> v.sourceCode]]

SourcePaneText(d, kind) ==
    [d EXCEPT !.sourcePane = [kind |-> kind, txId |-> None, code |-> None]]

\* switchTab('source'): loadAndRenderSourceCode up to its first await.
loadAndRenderSourceCode ==
    /\ dom.listening
    /\ IF viewer.state = None
       THEN /\ dom' = SourcePaneText(dom, "load contract data first")
            /\ UNCHANGED <<viewer, pending>>
       ELSE IF IsSome(viewer.sourceCode) /\ IsSome(viewer.sourceTxId)
       THEN /\ dom' = RenderSourceCode(viewer, dom)
            /\ UNCHANGED <<viewer, pending>>
       ELSE /\ BagCardinality(pending) < MaxPending
            /\ dom' = SourcePaneText(dom, "loading")
            /\ pending' = pending (+) SetToBag({
                    Awaiting("fetchSourceTxId",
                             Val(viewer.state).contractTxId, <<>>, 0)})
            /\ UNCHANGED viewer
    /\ UNCHANGED <<srcVars, loads>>

\* loadAndRenderSourceCode after fetchSourceTxId(contractId) settled: it
\* stores the id and goes on to fetchSourceCode, or shows the error.
loadAndRenderSourceCode_txId(call, ok) ==
    /\ BagIn(call, pending)
    /\ call.op = "fetchSourceTxId"
    /\ IF ok
       THEN /\ viewer' = [viewer EXCEPT
                            !.sourceTxId = Some(SourceTxIdOf(call.contract))]
            /\ pending' = (pending (-) SetToBag({call}))
                            (+) SetToBag({[call EXCEPT !.op = "fetchSourceCode"]})
            /\ UNCHANGED dom
       ELSE /\ dom' = SourcePaneText(dom, "error")
            /\ pending' = pending (-) SetToBag({call})
            /\ UNCHANGED viewer
    /\ UNCHANGED <<srcVars, loads>>

\* loadAndRenderSourceCode after fetchSourceCode(sourceTxId) settled, with
\* the sourceTxId the handler holds in its local variable.
loadAndRenderSourceCode_settled(call, ok) ==
    /\ BagIn(call, pending)
    /\ call.op = "fetchSourceCode"
    /\ IF ok
       THEN /\ viewer' = [viewer EXCEPT
                            !.sourceCode =
                                Some(SourceCodeOf(SourceTxIdOf(call.contract)))]
            /\ dom' = RenderSourceCode(viewer', dom)
       ELSE /\ dom' = SourcePaneText(dom, "error")
            /\ UNCHANGED viewer
    /\ pending' = pending (-) SetToBag({call})
    /\ UNCHANGED <<srcVars, loads>>

\* What a read can yield while the source tab is used: documents of two
\* contracts, or a failure.
SourceResponses ==
    {r \in Responses({PayA, PayB}) : r.kind \in {"reject", "json"}}

\* The page with its load button and its source tab.
SourceNext ==
    \/ \E p \in {"http:", "file:"} : init(p, "snapshot", <<>>)
    \/ handleLoadData("snapshot", <<>>)
    \/ \E load \in BagToSet(loads), resp \in SourceResponses :
            handleLoadData_settled(load, resp)
    \/ loadAndRenderSourceCode
    \/ \E call \in BagToSet(pending), ok \in BOOLEAN :
            loadAndRenderSourceCode_txId(call, ok)
    \/ \E call \in BagToSet(pending), ok \in BOOLEAN :
            loadAndRenderSourceCode_settled(call, ok)

SpecSource == Init /\ [][SourceNext]_vars

\* The source transaction and the source text of a contract.
SourceOf(contractId) ==
    [txId |-> [srcOf |-> contractId],
     code |-> [codeOf |-> [srcOf |-> contractId]]]

C26_FetchForLoadedContract ==
    [][\A call \in BagToSet(pending) :
        (pending' # pending /\ IsSome(viewer.state)
            /\ call.contract = Val(viewer.state).contractTxId
            /\ viewer.sourceTxId
                    = Some(SourceOf(Val(viewer.state).contractTxId).txId)
            /\ loadAndRenderSourceCode_settled(call, TRUE)) =>
                /\ viewer'.sourceTxId = Some(SourceOf(call.contract).txId)
                /\ viewer'.sourceCode = Some(SourceOf(call.contract).code)]_vars

----------------------------------------------------------------------------
(* TokenStateViewer: wallet and transfer (SpecWallet) *)

\* Addresses the wallet extension hands out.
WalletAddresses == {Str_ab, Str_B}

\* A document without contractTxId, with a balance of two digits and a vault
\* of another address.
PayNoId == MkDoc("",
                 << <<Str_ab, 12>> >>,
                 Some(<< <<Str_B, <<Entry(2)>> >> >>),
                 "TokenE", "TKE")

WalletResponses ==
    {r \in Responses({PayA, PayB, PayNoId}) : r.kind \in {"reject", "json"}}

\* Contents of the transfer form: the target field (" ", " Ab ", "ab") and
\* the quantity field ("", "0", "-1", "1.5", "3").
TargetInputs == {<<32>>, <<32, 65, 98, 32>>, Str_ab}
QtyInputs == {<<>>, <<48>>, <<45, 49>>, <<49, 46, 53>>, <<51>>}

\* The longest prefix of decimal digits of a string, and its value.
RECURSIVE LeadingDigits(_)
LeadingDigits(str) ==
    IF str # <<>> /\ 48 <= Head(str) /\ Head(str) <= 57
    THEN <<Head(str)>> \o LeadingDigits(Tail(str))
    ELSE <<>>

RECURSIVE DigitsValue(_)
DigitsValue(digits) ==
    IF digits = <<>> THEN 0
    ELSE 10 * DigitsValue(SubSeq(digits, 1, Len(digits) - 1))
            + (digits[Len(digits)] - 48)

\* parseInt(string) on a string without a 0x prefix: white space is skipped,
\* then an optional sign, then decimal digits up to the first other
\* character; None stands for NaN.
ParseInt(string) ==
    LET str == TrimStart(string)
        signed == str # <<>> /\ Head(str) \in {43, 45}
        digits == LeadingDigits(IF signed THEN Tail(str) ELSE str) IN
    IF digits = <<>> THEN None
    ELSE IF signed /\ Head(str) = 45 THEN Some(0 - DigitsValue(digits))
    ELSE Some(DigitsValue(digits))

\* Mutant: a transfer of more than the balance passes when the wallet has
\* any balance at all.
M_TransferError_anyBalance(v, target, qty) ==
    IF ~v.walletConnected \/ v.walletAddress = None
          \/ v.walletAddress = Some(<<>>)
    THEN Some("Please connect your wallet first.")
    ELSE IF v.state = None \/ Val(v.state).contractTxId = ""
    THEN Some("Please load contract data first.")
    ELSE IF target = <<>> \/ qty = None \/ qty = Some(0) \/ Val(qty) <= 0
    THEN Some("Please fill in all required fields with valid values.")
    ELSE IF target = Val(v.walletAddress)
    THEN Some("Cannot transfer to yourself.")
    ELSE LET found == Lookup(Val(Val(Val(v.state).state).balances),
                             Val(v.walletAddress))
             balance == IF IsSome(found) /\ Val(found) # 0
                        THEN Val(found) ELSE 0 IN
         IF balance <= 0
         THEN Some("Insufficient balance.")
         ELSE None

\* submitTransfer, its validation: the message of the error it shows, or
\* None when the transfer goes on to its dispatch.
TransferError(v, target, qty) ==
    IF ~v.walletConnected \/ v.walletAddress = None
          \/ v.walletAddress = Some(<<>>)
    THEN Some("Please connect your wallet first.")
    ELSE IF v.state = None \/ Val(v.state).contractTxId = ""
    THEN Some("Please load contract data first.")
    ELSE IF target = <<>> \/ qty = None \/ qty = Some(0) \/ Val(qty) <= 0
    THEN Some("Please fill in all required fields with valid values.")
    ELSE IF target = Val(v.walletAddress)
    THEN Some("Cannot transfer to yourself.")
    ELSE LET found == Lookup(Val(Val(Val(v.state).state).balances),
                             Val(v.walletAddress))
             balance == IF IsSome(found) /\ Val(found) # 0
                        THEN Val(found) ELSE 0 IN
         IF balance < Val(qty)
         THEN Some("Insufficient balance.")
         ELSE None

\* The wallet extension injects window.arweaveWallet.
arweaveWalletLoaded ==
    /\ ~dom.arweaveWallet
    /\ dom' = [dom EXCEPT !.arweaveWallet = TRUE]
    /\ UNCHANGED <<srcVars, viewer, loads, pending>>

\* A click on the wallet button while no wallet is connected: connectWallet
\* up to "await window.arweaveWallet.connect", or its error when there is no
\* extension.
connectWallet ==
    /\ dom.listening
    /\ ~viewer.walletConnected
    /\ IF dom.arweaveWallet
       THEN /\ BagCardinality(pending) < MaxPending
            /\ pending' = pending (+) SetToBag({Awaiting("connect", "", <<>>, 0)})
            /\ UNCHANGED dom
       ELSE /\ dom' = [dom EXCEPT !.error = Some("Failed to connect wallet")]
            /\ UNCHANGED pending
    /\ UNCHANGED <<srcVars, viewer, loads>>

\* connectWallet after connect() settled: on to "await getActiveAddress",
\* or the error when the permission was refused.
connectWallet_connected(call, ok) ==
    /\ BagIn(call, pending)
    /\ call.op = "connect"
    /\ IF ok
       THEN /\ pending' = (pending (-) SetToBag({call}))
                            (+) SetToBag({[call EXCEPT !.op = "getActiveAddress"]})
            /\ UNCHANGED dom
       ELSE /\ pending' = pending (-) SetToBag({call})
            /\ dom' = [dom EXCEPT !.error = Some("Failed to connect wallet")]
    /\ UNCHANGED <<srcVars, viewer, loads>>

\* Mutant: the wallet counts as connected although the address lookup
\* failed.
M_connectWallet_settled_connectsAnyway(call, address) ==
    /\ BagIn(call, pending)
    /\ call.op = "getActiveAddress"
    /\ IF IsSome(address)
       THEN /\ viewer' = [viewer EXCEPT !.walletAddress = address,
                                        !.walletConnected = TRUE]
            /\ dom' = UpdateWalletBalances(viewer', dom)
       ELSE /\ viewer' = [viewer EXCEPT !.walletConnected = TRUE]
            /\ dom' = [dom EXCEPT !.error = Some("Failed to connect wallet")]
    /\ pending' = pending (-) SetToBag({call})
    /\ UNCHANGED <<srcVars, loads>>

\* connectWallet after getActiveAddress() settled (None: it rejected): the
\* address is stored, the wallet counts as connected and the wallet balances
\* are shown; or the error.
connectWallet_settled(call, address) ==
    /\ BagIn(call, pending)
    /\ call.op = "getActiveAddress"
    /\ IF IsSome(address)
       THEN /\ viewer' = [viewer EXCEPT !.walletAddress = address,
                                        !.walletConnected = TRUE]
            /\ dom' = UpdateWalletBalances(viewer', dom)
       ELSE /\ dom' = [dom EXCEPT !.error = Some("Failed to connect wallet")]
            /\ UNCHANGED viewer
    /\ pending' = pending (-) SetToBag({call})
    /\ UNCHANGED <<srcVars, loads>>

\* A click on the wallet button while a wallet is connected.
showDisconnectModal ==
    /\ dom.listening
    /\ viewer.walletConnected
    /\ ~dom.disconnectModal
    /\ dom' = [dom EXCEPT !.disconnectModal = TRUE]
    /\ UNCHANGED <<srcVars, viewer, loads, pending>>

\* Cancel, a click on the overlay, or Escape.
hideDisconnectModal ==
    /\ dom.disconnectModal
    /\ dom' = [dom EXCEPT !.disconnectModal = FALSE]
    /\ UNCHANGED <<srcVars, viewer, loads, pending>>

\* A click on the confirm button of the dialog: disconnectWallet up to
\* "await window.arweaveWallet.disconnect", or to its end without extension.
disconnectWallet ==
    /\ dom.disconnectModal
    /\ dom' = [dom EXCEPT !.disconnectModal = FALSE]
    /\ IF dom.arweaveWallet
       THEN /\ BagCardinality(pending) < MaxPending
            /\ pending' = pending
                            (+) SetToBag({Awaiting("disconnect", "", <<>>, 0)})
            /\ UNCHANGED viewer
       ELSE /\ viewer' = [viewer EXCEPT !.walletAddress = None,
                                        !.walletConnected = FALSE]
            /\ UNCHANGED pending
    /\ UNCHANGED <<srcVars, loads>>

\* disconnectWallet after disconnect() settled, resolved or rejected.
disconnectWallet_settled(call, ok) ==
    /\ BagIn(call, pending)
    /\ call.op = "disconnect"
    /\ viewer' = [viewer EXCEPT !.walletAddress = None,
                                !.walletConnected = FALSE]
    /\ pending' = pending (-) SetToBag({call})
    /\ UNCHANGED <<srcVars, dom, loads>>

\* The submit event of the transfer form: submitTransfer up to the awaits of
\* dispatchSmartWeaveInteraction.  A dispatch that throws before its first
\* await (no extension) is caught before any other handler runs.
submitTransfer(targetInput, qtyInput) ==
    /\ dom.listening
    /\ LET target == Trim(targetInput)
           qty == ParseInt(qtyInput)
           failed == TransferError(viewer, target, qty) IN
       IF IsSome(failed)
       THEN /\ dom' = [dom EXCEPT !.error = failed]
            /\ UNCHANGED pending
       ELSE IF ~dom.arweaveWallet
       THEN /\ dom' = [dom EXCEPT !.error = Some("Failed to submit transfer"),
                                  !.submitDisabled = FALSE]
            /\ UNCHANGED pending
       ELSE /\ BagCardinality(pending) < MaxPending
            /\ dom' = [dom EXCEPT !.error = None, !.submitDisabled = TRUE]
            /\ pending' = pending (+) SetToBag({
                    Awaiting("dispatch", Val(viewer.state).contractTxId,
                             target, Val(qty))})
    /\ UNCHANGED <<srcVars, viewer, loads>>

\* submitTransfer after dispatchSmartWeaveInteraction settled (permission,
\* createTransaction, sign, post): the button is enabled again, with the
\* error shown when the dispatch failed.
submitTransfer_settled(call, ok) ==
    /\ BagIn(call, pending)
    /\ call.op = "dispatch"
    /\ dom' = IF ok THEN [dom EXCEPT !.submitDisabled = FALSE]
              ELSE [dom EXCEPT !.error = Some("Failed to submit transfer"),
                               !.submitDisabled = FALSE]
    /\ pending' = pending (-) SetToBag({call})
    /\ UNCHANGED <<srcVars, viewer, loads>>

\* The page with its load button, its wallet button and its transfer form.
WalletNext ==
    \/ \E p \in {"http:", "file:"} : init(p, "snapshot", <<>>)
    \/ handleLoadData("snapshot", <<>>)
    \/ \E load \in BagToSet(loads), resp \in WalletResponses :
            handleLoadData_settled(load, resp)
    \/ arweaveWalletLoaded
    \/ connectWallet
    \/ \E call \in BagToSet(pending), ok \in BOOLEAN :
            connectWallet_connected(call, ok)
    \/ \E call \in BagToSet(pending),
          address \in {None} \cup {Some(a) : a \in WalletAddresses} :
            connectWallet_settled(call, address)
    \/ showDisconnectModal
    \/ hideDisconnectModal
    \/ disconnectWallet
    \/ \E call \in BagToSet(pending), ok \in BOOLEAN :
            disconnectWallet_settled(call, ok)
    \/ \E t \in TargetInputs, q \in QtyInputs : submitTransfer(t, q)
    \/ \E call \in BagToSet(pending), ok \in BOOLEAN :
            submitTransfer_settled(call, ok)

SpecWallet == Init /\ [][WalletNext]_vars

----------------------------------------------------------------------------
(* Properties of the transfer form and the wallet *)

\* The balance a document holds for an address (0 when it holds none).
BalanceAt(doc, address) ==
    IF \E i \in 1..Len(BalancesOf(doc)) : BalancesOf(doc)[i][1] = address
    THEN (CHOOSE e \in {BalancesOf(doc)[i] : i \in 1..Len(BalancesOf(doc))} :
                e[1] = address)[2]
    ELSE 0

\* The quantity a content of the quantity field stands for: none for "",
\* the integer part for "1.5".
TypedQuantity(text) ==
    CASE text = <<>> -> None
      [] text = <<48>> -> Some(0)
      [] text = <<45, 49>> -> Some(-1)
      [] text = <<49, 46, 53>> -> Some(1)
      [] text = <<51>> -> Some(3)

\* The conditions of a transfer of quantity qty to target: a wallet is
\* connected with an address, a state with a contractTxId is loaded, the
\* target is not empty and not the wallet's address, the quantity is a
\* positive integer and the wallet's balance in the loaded state covers it.
MayTransfer(v, target, qty) ==
    /\ v.walletConnected /\ v.walletAddress # <<>>
    /\ v.state # <<>> /\ v.state[1].contractTxId # ""
    /\ target # <<>>
    /\ qty \in Nat \ {0}
    /\ target # v.walletAddress[1]
    /\ BalanceAt(v.state[1], v.walletAddress[1]) >= qty

\* This step puts a call of dispatchSmartWeaveInteraction in flight.
Dispatches(d) ==
    /\ d.op = "dispatch"
    /\ CopiesIn(d, pending') > CopiesIn(d, pending)

\* C27: submitTransfer dispatches a transfer only when, at that moment, the
\* conditions of the transfer hold (on the trimmed target and the parsed
\* quantity), and then to the loaded contract; otherwise it shows an error
\* and dispatches nothing; when the dispatch has succeeded or failed the
\* submit button is enabled again.
C27_TransferGuard ==
    [][/\ \A d \in BagToSet(pending') :
            Dispatches(d) =>
                /\ MayTransfer(viewer, d.target, d.qty)
                /\ d.contract = viewer.state[1].contractTxId
                /\ BagCardinality(pending') = BagCardinality(pending) + 1
       /\ \A t \in TargetInputs, q \in QtyInputs :
            (viewer' = viewer /\ loads' = loads
                /\ dom'.disconnectModal = dom.disconnectModal
                /\ dom'.arweaveWallet = dom.arweaveWallet
                /\ BagCardinality(pending') >= BagCardinality(pending)
                /\ submitTransfer(t, q)) =>
                IF /\ IsSome(TypedQuantity(q))
                   /\ MayTransfer(viewer, Trim(t), Val(TypedQuantity(q)))
                THEN /\ Dispatches(Awaiting("dispatch",
                                            viewer.state[1].contractTxId,
                                            Trim(t), Val(TypedQuantity(q))))
                     /\ dom'.submitDisabled /\ dom'.error = None
                ELSE /\ pending' = pending
                     /\ IsSome(dom'.error)
       /\ \A call \in BagToSet(pending), ok \in BOOLEAN :
            submitTransfer_settled(call, ok) =>
                /\ ~dom'.submitDisabled
                /\ ok \/ IsSome(dom'.error)
                /\ pending' = pending (-) SetToBag({call})]_vars

\* A transfer of 3 to "Ab", typed " Ab ", is in flight from wallet "B",
\* which holds exactly 3.
C27_Witness ==
    /\ BagIn(Awaiting("dispatch", "contractB", Str_Ab, 3), pending)
    /\ dom.submitDisabled
    /\ viewer.walletAddress = Some(Str_B)
    /\ viewer.state = Some(PayB)

\* A transfer to the wallet's own address was refused.
C27_WitnessRefused ==
    /\ dom.error = Some("Cannot transfer to yourself.")
    /\ pending = EmptyBag
    /\ ~dom.submitDisabled

\* The text that shows a number from 0 to 99.
Shown(n) == IF n < 10 THEN <<48 + n>> ELSE <<48 + (n \div 10), 48 + (n % 10)>>

\* The vaulted amount a document holds for an address.
VaultedAt(doc, address) == SumOfEntries(EntriesAt(VaultOf(doc), address))

\* C28: whenever the wallet is connected and a state is loaded, between two
\* handler steps, the displayed wallet balance and vaulted amount are those
\* of the wallet address in the loaded state (0 when the address has no
\* entry), whatever the interleaving of wallet connection and loads.
C28_WalletBalancesShown ==
    (viewer.walletConnected /\ IsSome(viewer.state)) =>
        /\ IsSome(viewer.walletAddress)
        /\ dom.walletBalance
                = Shown(BalanceAt(Val(viewer.state), Val(viewer.walletAddress)))
        /\ dom.walletVaulted
                = Shown(VaultedAt(Val(viewer.state), Val(viewer.walletAddress)))

\* Wallet "B" is connected while the document without an entry for it in
\* balances is loaded: balance 0, vaulted 2.
C28_Witness ==
    /\ viewer.walletConnected
    /\ viewer.walletAddress = Some(Str_B)
    /\ viewer.state = Some(PayNoId)
    /\ dom.walletBalance = <<48>>
    /\ dom.walletVaulted = <<50>>

\* Wallet "ab" with the two-digit balance 12, loaded after the connection.
C28_WitnessReloaded ==
    /\ viewer.walletConnected
    /\ viewer.walletAddress = Some(Str_ab)
    /\ viewer.state = Some(PayNoId)
    /\ dom.walletBalance = <<49, 50>>
    /\ dom.walletVaulted = <<48>>

\* This step is the end of a connectWallet that fails: no extension, the
\* permission refused, or the address lookup failed.
ConnectFails ==
    \/ ~dom.arweaveWallet /\ connectWallet
    \/ \E call \in BagToSet(pending) : connectWallet_connected(call, FALSE)
    \/ \E call \in BagToSet(pending) : connectWallet_settled(call, None)

\* This step is the end of a disconnectWallet, whether the extension's
\* disconnect call resolved or rejected.
DisconnectEnds ==
    \/ ~dom.arweaveWallet /\ disconnectWallet
    \/ \E call \in BagToSet(pending), ok \in BOOLEAN :
            disconnectWallet_settled(call, ok)

\* This step is the end of a connectWallet that obtained an address.
ConnectObtains(address) ==
    \E call \in BagToSet(pending) : connectWallet_settled(call, Some(address))

\* C30 as stated: disconnectWallet always ends with walletConnected false
\* and walletAddress null; a connectWallet that fails leaves walletConnected
\* false and shows an error; walletConnected becomes true only after an
\* address was obtained.
C30_FailedConnectLeavesFalse ==
    [][/\ DisconnectEnds =>
            ~viewer'.walletConnected /\ viewer'.walletAddress = None
       /\ ConnectFails =>
            ~viewer'.walletConnected /\ IsSome(dom'.error)
       /\ (~viewer.walletConnected /\ viewer'.walletConnected) =>
            /\ IsSome(viewer'.walletAddress)
            /\ ConnectObtains(Val(viewer'.walletAddress))]_vars

\* C30, amended: disconnectWallet always ends with walletConnected false and
\* walletAddress null; a connectWallet that fails shows an error and leaves
\* walletConnected and walletAddress as they were; walletConnected becomes
\* true only after an address was obtained.
C30_FailedConnectChangesNothing ==
    [][/\ DisconnectEnds =>
            ~viewer'.walletConnected /\ viewer'.walletAddress = None
       /\ ConnectFails =>
            /\ viewer'.walletConnected = viewer.walletConnected
            /\ viewer'.walletAddress = viewer.walletAddress
            /\ IsSome(dom'.error)
       /\ (~viewer.walletConnected /\ viewer'.walletConnected) =>
            /\ IsSome(viewer'.walletAddress)
            /\ ConnectObtains(Val(viewer'.walletAddress))]_vars

\* A connectWallet failed while none was connected; and a disconnect ended
\* while a connectWallet was still awaiting its address.
C30_Witness ==
    /\ dom.error = Some("Failed to connect wallet")
    /\ ~viewer.walletConnected /\ viewer.walletAddress = None
    /\ dom.arweaveWallet
    /\ IsSome(viewer.state)
    /\ BagIn(Awaiting("getActiveAddress", "", <<>>, 0), pending)

\* A connectWallet failed while another one had connected the wallet.
C30_WitnessConnected ==
    /\ dom.error = Some("Failed to connect wallet")
    /\ viewer.walletConnected /\ IsSome(viewer.walletAddress)
    /\ pending = EmptyBag

----------------------------------------------------------------------------
(* The stale fallback of ApiSource *)

\* The cache of source s counts as fresh at time t.
Fresh(s, t) ==
    /\ s.cachedState # <<>>
    /\ s.cacheExpiry # <<>>
    /\ t < s.cacheExpiry[1]

\* The request of a call settled to resp in this step, on an ApiSource.
RequestSettles(resp) ==
    \E c \in BagToSet(calls) : ApiSource_fetchState_settled(c, resp)

\* C29: when an ApiSource fetchState serves the cached payload after a
\* failed request, cachedState and cacheExpiry are left as they were; while
\* the cache does not count as fresh every fetchState issues a request; and
\* a cache that does not count as fresh becomes fresh only by a request that
\* succeeds, never by a stale fallback.
C29_StaleFallbackKeepsCache ==
    [][src.kind = "ApiSource" =>
        /\ \A resp \in Responses(SrcPayloads) :
            (calls' # calls /\ FailedRead(resp) /\ RequestSettles(resp)) =>
                /\ src'.cachedState = src.cachedState
                /\ src'.cacheExpiry = src.cacheExpiry
                /\ ev'.ok <=> src.cachedState # <<>>
                /\ ev'.ok => ev'.value = src.cachedState
        /\ (~Fresh(src, now) /\ calls' # calls
                /\ ApiSource_fetchState("fetchState")) => ev'.request
        /\ (~Fresh(src, now) /\ Fresh(src', now')) =>
                \E resp \in Responses(SrcPayloads) :
                    ~FailedRead(resp) /\ RequestSettles(resp)]_vars

\* A request failed after the expiry of the cache and the stale payload was
\* served: the expiry still lies in the past.
C29_Witness ==
    /\ src.kind = "ApiSource"
    /\ ev.op = "return" /\ TransportFailed(ev) /\ ev.ok
    /\ ev.value = src.cachedState
    /\ IsSome(src.cacheExpiry) /\ Val(src.cacheExpiry) <= now
    /\ Val(src.cacheExpiry) > 1

\* After a stale fallback the next call issued a request again.
C29_WitnessNextRequest ==
    /\ src.kind = "ApiSource"
    /\ ev.op = "call" /\ ev.request
    /\ IsSome(src.cachedState)
    /\ IsSome(src.cacheExpiry) /\ Val(src.cacheExpiry) <= now
    /\ BagCardinality(calls) = 1
    /\ HaveLastOk /\ LastOk.at < now

====
